---- MODULE Spec2Model ----
(***************************************************************************)
(* Card layout classification (src/layouts.py): assign_layout, the layout  *)
(* classes' derived properties and join_dual_card_layouts.                 *)
(*                                                                         *)
(* Python strings are sequences of one-character strings.  An optional     *)
(* value (dict.get without default, Optional[...]) is a record             *)
(* [present, val].  An expression that may raise evaluates to a record     *)
(* [exc, val] whose exc is "none" or the name of the exception.            *)
(***************************************************************************)
EXTENDS Integers, Sequences, FiniteSets, TLC

VARIABLES
    cfg,        \* CFG / ENV settings read by the layout code
    con,        \* CON.set_data entry of the card's set (hexproof.io data)
    file,       \* parse_card_info(filename) of the art file being classified
    scryfall,   \* get_card_data + process_card_data result for that file
    result,     \* what assign_layout returned (or raised) for that file
    view,       \* properties read from the returned layout object
    layouts,    \* batch: the assign_layout results collected so far
    joined,     \* batch: outcomes of the join_dual_card_layouts calls so far
    pc          \* position of the run

vars == <<cfg, con, file, scryfall, result, view, layouts, joined, pc>>

(***************************************************************************)
(* Bounds of the model.                                                    *)
(***************************************************************************)
MaxLen == 3         \* longest raw collector string tried
MaxFiles == 3       \* art files in one batch
MaxJoins == 2       \* calls of join_dual_card_layouts on one batch

(***************************************************************************)
(* Python values.                                                          *)
(***************************************************************************)
None == [present |-> FALSE, val |-> <<>>]
Some(v) == [present |-> TRUE, val |-> v]
NoneInt == [present |-> FALSE, val |-> 0]

Ok(v) == [exc |-> "none", val |-> v]
RaiseStr(e) == [exc |-> e, val |-> <<>>]
RaiseInt(e) == [exc |-> e, val |-> 0]
RaiseOpt(e) == [exc |-> e, val |-> NoneInt]

Digits == <<"0", "1", "2", "3", "4", "5", "6", "7", "8", "9">>
LowerAlpha == <<"a", "b", "c", "d", "e", "f", "g", "h", "i", "j", "k", "l", "m",
                "n", "o", "p", "q", "r", "s", "t", "u", "v", "w", "x", "y", "z">>
UpperAlpha == <<"A", "B", "C", "D", "E", "F", "G", "H", "I", "J", "K", "L", "M",
                "N", "O", "P", "Q", "R", "S", "T", "U", "V", "W", "X", "Y", "Z">>

\* str.isdigit() on one character.
isdigit(c) == \E i \in DOMAIN Digits : Digits[i] = c

DigitVal(c) == (CHOOSE i \in DOMAIN Digits : Digits[i] = c) - 1

\* str.upper() / str.lower() on one character and on a string.
upper_char(c) ==
    IF \E i \in DOMAIN LowerAlpha : LowerAlpha[i] = c
    THEN UpperAlpha[CHOOSE i \in DOMAIN LowerAlpha : LowerAlpha[i] = c]
    ELSE c

lower_char(c) ==
    IF \E i \in DOMAIN UpperAlpha : UpperAlpha[i] = c
    THEN LowerAlpha[CHOOSE i \in DOMAIN UpperAlpha : UpperAlpha[i] = c]
    ELSE c

upper(s) == [i \in DOMAIN s |-> upper_char(s[i])]
lower(s) == [i \in DOMAIN s |-> lower_char(s[i])]

\* ''.join(char for char in s if char.isdigit())
digits_only(s) == SelectSeq(s, isdigit)

\* int(s) for a string of decimal digits; int('') raises ValueError.
RECURSIVE int_digits(_)
int_digits(s) ==
    IF s = <<>> THEN 0
    ELSE 10 * int_digits(SubSeq(s, 1, Len(s) - 1)) + DigitVal(s[Len(s)])

int(s) ==
    IF s = <<>> \/ \E i \in DOMAIN s : ~isdigit(s[i])
    THEN RaiseInt("ValueError")
    ELSE Ok(int_digits(s))

\* str(n) for a non-negative int.
RECURSIVE str_int(_)
str_int(n) ==
    IF n < 10 THEN <<Digits[n + 1]>>
    ELSE str_int(n \div 10) \o <<Digits[(n % 10) + 1]>>

\* str.zfill(width) for a string without sign.
RECURSIVE zfill(_, _)
zfill(s, width) == IF Len(s) >= width THEN s ELSE zfill(<<"0">> \o s, width)

\* omnitils.strings.normalize_str on the names of the model: case folding.
normalize_str(s) == lower(s)

(***************************************************************************)
(* Enumerations (src.enums), by member name.                               *)
(***************************************************************************)
Rarity_C == <<"c", "o", "m", "m", "o", "n">>
Rarity_U == <<"u", "n", "c", "o", "m", "m", "o", "n">>
Rarity_R == <<"r", "a", "r", "e">>
Rarity_M == <<"m", "y", "t", "h", "i", "c">>
Rarity_T == <<"t", "i", "m", "e", "s", "h", "i", "f", "t", "e", "d">>

CollectorModes == {"Normal", "Minimal"}

\* layout_map: Scryfall layout name -> layout class.
layout_map ==
    [normal |-> "NormalLayout",
     split |-> "SplitLayout",
     transform |-> "TransformLayout",
     modal_dfc |-> "ModalDoubleFacedLayout",
     meld |-> "TransformLayout",
     leveler |-> "LevelerLayout",
     case |-> "CaseLayout",
     class |-> "ClassLayout",
     saga |-> "SagaLayout",
     adventure |-> "AdventureLayout",
     mutate |-> "MutateLayout",
     prototype |-> "PrototypeLayout",
     battle |-> "BattleLayout",
     planar |-> "PlanarLayout",
     token |-> "TokenLayout",
     emblem |-> "TokenLayout",
     planeswalker |-> "PlaneswalkerLayout",
     planeswalker_mdfc |-> "PlaneswalkerMDFCLayout",
     planeswalker_tf |-> "PlaneswalkerTransformLayout",
     station |-> "StationLayout",
     flip |-> "TransformLayout",
     scheme |-> "NormalLayout",
     vanguard |-> "NormalLayout",
     double_faced_token |-> "TransformLayout",
     augment |-> "NormalLayout",
     host |-> "NormalLayout",
     art_series |-> "TokenLayout",
     reversible_card |-> "TransformLayout"]

(***************************************************************************)
(* A layout object: its class, the two dictionaries given to __init__ and  *)
(* the instance attributes assigned after construction.                    *)
(***************************************************************************)
\* A pathlib.Path and a list of paths, as values of the art_file attribute.
PathValue(p) == [is_list |-> FALSE, items |-> <<p>>]
ListValue(ps) == [is_list |-> TRUE, items |-> ps]

\* art_file before any assignment: NormalLayout returns file['file'],
\* SplitLayout returns art_files[0] with art_files = [Path(file['file'])].
NewLayout(cls, sf, f) ==
    [kind |-> "layout", cls |-> cls, scryfall |-> sf, file |-> f,
     art_file |-> PathValue(f.file)]

\* NormalLayout.is_front
is_front(l) ==
    IF l.scryfall.front = "absent" THEN TRUE ELSE l.scryfall.front = "true"


\* Mutant of card_class: the double-faced classes tell front from back by
\* the number of faces of the record instead of its front flag.
card_class_by_faces(l) ==
    LET front == l.scryfall.card_faces.present /\ Len(l.scryfall.card_faces.val) = 2
    IN  CASE l.cls = "TransformLayout" ->
                IF front THEN "TransformFront" ELSE "TransformBack"
          [] l.cls = "ModalDoubleFacedLayout" -> IF front THEN "MDFCFront" ELSE "MDFCBack"
          [] l.cls = "PlaneswalkerTransformLayout" ->
                IF front THEN "PlaneswalkerTransformFront" ELSE "PlaneswalkerTransformBack"
          [] l.cls = "PlaneswalkerMDFCLayout" ->
                IF front THEN "PlaneswalkerMDFCFront" ELSE "PlaneswalkerMDFCBack"
          [] OTHER -> l.cls

\* card_class of each layout class.  The Transform, MDFC and Planeswalker
\* double-faced classes compute it from is_front; Battle overrides the
\* property inherited from TransformLayout with a class attribute; TokenLayout
\* defines none and inherits NormalLayout's.
card_class(l) ==
    CASE l.cls = "NormalLayout" -> "Normal"
      [] l.cls = "MutateLayout" -> "Mutate"
      [] l.cls = "PrototypeLayout" -> "Prototype"
      [] l.cls = "PlaneswalkerLayout" -> "Planeswalker"
      [] l.cls = "PlaneswalkerTransformLayout" ->
            IF is_front(l) THEN "PlaneswalkerTransformFront" ELSE "PlaneswalkerTransformBack"
      [] l.cls = "PlaneswalkerMDFCLayout" ->
            IF is_front(l) THEN "PlaneswalkerMDFCFront" ELSE "PlaneswalkerMDFCBack"
      [] l.cls = "TransformLayout" ->
            IF is_front(l) THEN "TransformFront" ELSE "TransformBack"
      [] l.cls = "ModalDoubleFacedLayout" ->
            IF is_front(l) THEN "MDFCFront" ELSE "MDFCBack"
      [] l.cls = "AdventureLayout" -> "Adventure"
      [] l.cls = "LevelerLayout" -> "Leveler"
      [] l.cls = "SagaLayout" -> "Saga"
      [] l.cls = "ClassLayout" -> "Class"
      [] l.cls = "CaseLayout" -> "Case"
      [] l.cls = "BattleLayout" -> "Battle"
      [] l.cls = "PlanarLayout" -> "Planar"
      [] l.cls = "SplitLayout" -> "Split"
      [] l.cls = "TokenLayout" -> "Normal"
      [] l.cls = "StationLayout" -> "Station"

(***************************************************************************)
(* Core data.                                                              *)
(***************************************************************************)
\* SplitLayout.cards: [*scryfall.get('card_faces', [])]
cards(l) == IF l.scryfall.card_faces.present THEN l.scryfall.card_faces.val ELSE <<>>

\* NormalLayout.input_name
input_name(l) == l.file.name

\* card: NormalLayout picks the face named like the art file and falls back
\* to the whole record; SplitLayout takes cards[0].
card(l) ==
    IF l.cls = "SplitLayout"
    THEN IF cards(l) = <<>> THEN RaiseStr("IndexError") ELSE Ok(cards(l)[1])
    ELSE LET faces == cards(l)
             hit == {i \in DOMAIN faces :
                        normalize_str(faces[i].name) = normalize_str(input_name(l))}
         IN  IF hit = {}
             THEN Ok(l.scryfall)
             ELSE Ok(faces[CHOOSE i \in hit : \A j \in hit : i <= j])

\* src.frame_logic.get_frame_details(card): raises on a face it cannot read.
get_frame_details(l) == IF l.scryfall.frame_error THEN "KeyError" ELSE "none"

\* Mutant of init_layout: the constructor also evaluates the variant's own
\* text properties.
init_layout_eager(l) ==
    IF card(l).exc # "none" THEN card(l).exc
    ELSE IF get_frame_details(l) # "none" THEN get_frame_details(l)
    ELSE CASE l.cls = "PrototypeLayout" /\ l.scryfall.oracle_text # "prototype" -> "TypeError"
           [] l.cls = "StationLayout" /\ l.scryfall.oracle_text # "station" -> "ValueError"
           [] l.cls = "AdventureLayout" /\ Len(cards(l)) < 2 -> "IndexError"
           [] OTHER -> "none"

\* Mutant of init_layout: the constructor parses the rules text and fails on
\* a text that yields nothing.
init_layout_requires_text(l) ==
    IF card(l).exc # "none" THEN card(l).exc
    ELSE IF get_frame_details(l) # "none" THEN get_frame_details(l)
    ELSE IF "text" \in DOMAIN l.scryfall /\ l.scryfall.text = <<>> THEN "ValueError"
    ELSE "none"

\* NormalLayout.__init__: caches set_data and frame (frame reads card).
init_layout(l) == IF card(l).exc # "none" THEN card(l).exc ELSE get_frame_details(l)

\* SplitLayout.names (English data).
names(l) == [i \in DOMAIN cards(l) |-> cards(l)[i].name]

\* name: NormalLayout reads card['name']; SplitLayout returns names[0].
name(l) ==
    IF l.cls = "SplitLayout"
    THEN IF Len(names(l)) < 1 THEN RaiseStr("IndexError") ELSE Ok(names(l)[1])
    ELSE Ok(card(l).val.name)

\* display_name: SplitLayout joins both names, TokenLayout appends " Token".
display_name(l) ==
    CASE l.cls = "SplitLayout" ->
            IF Len(names(l)) < 2 THEN RaiseStr("IndexError")
            ELSE Ok(names(l)[1] \o <<" ", "/", "/", " ">> \o names(l)[2])
      [] l.cls = "TokenLayout" -> Ok(name(l).val \o <<" ", "T", "o", "k", "e", "n">>)
      [] OTHER -> name(l)

(***************************************************************************)
(* Set data and collector info.                                            *)
(***************************************************************************)
\* NormalLayout.set_data: the hexproof.io entry of the card's set.
set_data(l) == con

\* NormalLayout.set: scryfall.get('set', 'MTG').upper()
normal_set(l) ==
    IF l.scryfall.set.present THEN upper(l.scryfall.set.val) ELSE <<"M", "T", "G">>

\* set: TokenLayout uses the parent set code when the set data has one.
set_code(l) ==
    IF l.cls = "TokenLayout" /\ set_data(l).code_parent.present
    THEN upper(set_data(l).code_parent.val)
    ELSE normal_set(l)

\* NormalLayout.collector_number_raw
collector_number_raw(l) == l.scryfall.collector_number

\* Python truthiness of an optional string: None and '' are false.
truthy_str(o) == o.present /\ o.val # <<>>

\* NormalLayout.collector_number
collector_number(l) ==
    IF truthy_str(collector_number_raw(l))
    THEN int(digits_only(collector_number_raw(l).val))
    ELSE Ok(0)

\* Mutant of normal_card_count: the count is returned without comparing it
\* with the collector number.
normal_card_count_unguarded(l) ==
    IF cfg.collector_mode # "Normal" \/ ~truthy_str(collector_number_raw(l))
    THEN Ok(NoneInt)
    ELSE IF set_data(l).count_printed.present
         THEN Ok(set_data(l).count_printed)
         ELSE Ok(set_data(l).count_cards)

\* NormalLayout.card_count
normal_card_count(l) ==
    IF cfg.collector_mode # "Normal" \/ ~truthy_str(collector_number_raw(l))
    THEN Ok(NoneInt)
    ELSE LET count == IF set_data(l).count_printed.present
                      THEN set_data(l).count_printed
                      ELSE set_data(l).count_cards
         IN  IF ~count.present THEN Ok(NoneInt)
             ELSE IF collector_number(l).exc # "none"
                  THEN RaiseOpt(collector_number(l).exc)
                  ELSE IF count.val >= collector_number(l).val
                       THEN Ok(count) ELSE Ok(NoneInt)

\* Mutant of token_card_count: the collector mode is not looked at.
token_card_count_any_mode(l) ==
    IF ~truthy_str(collector_number_raw(l)) THEN Ok(NoneInt) ELSE Ok(set_data(l).count_tokens)

\* TokenLayout.card_count
token_card_count(l) ==
    IF cfg.collector_mode # "Normal" \/ ~truthy_str(collector_number_raw(l))
    THEN Ok(NoneInt)
    ELSE Ok(set_data(l).count_tokens)

card_count(l) ==
    IF l.cls = "TokenLayout" THEN token_card_count(l) ELSE normal_card_count(l)

\* src.frame_logic.get_special_rarity(rarity_raw, scryfall)
get_special_rarity(raw, sf) ==
    IF "special_as" \in DOMAIN sf THEN sf.special_as ELSE Rarity_M

\* NormalLayout.rarity_raw
rarity_raw(l) == IF l.scryfall.rarity.present THEN l.scryfall.rarity.val ELSE Rarity_C

\* NormalLayout.rarity
rarity(l) ==
    IF rarity_raw(l) \in {Rarity_C, Rarity_U, Rarity_R, Rarity_M, Rarity_T}
    THEN rarity_raw(l)
    ELSE get_special_rarity(rarity_raw(l), l.scryfall)

\* Mutant of rarity_letter: the letter of the raw rarity.
rarity_letter_of_raw(l) ==
    IF rarity_raw(l) = <<>> THEN RaiseStr("IndexError") ELSE Ok(<<upper_char(rarity_raw(l)[1])>>)

\* NormalLayout.rarity_letter
rarity_letter(l) ==
    IF rarity(l) = <<>> THEN RaiseStr("IndexError") ELSE Ok(<<upper_char(rarity(l)[1])>>)

\* Python truthiness of an Optional[int]: None and 0 are false.
truthy_int(o) == o.present /\ o.val # 0

\* collector_data, with the rarity letter the class prints.
collector_line(l, letter) ==
    IF card_count(l).exc # "none" THEN RaiseStr(card_count(l).exc)
    ELSE IF truthy_int(card_count(l).val)
    THEN IF collector_number(l).exc # "none" THEN RaiseStr(collector_number(l).exc)
         ELSE Ok(zfill(str_int(collector_number(l).val), 3) \o <<"/">>
                 \o zfill(str_int(card_count(l).val.val), 3) \o <<" ">> \o letter)
    ELSE IF truthy_str(collector_number_raw(l))
    THEN IF collector_number(l).exc # "none" THEN RaiseStr(collector_number(l).exc)
         ELSE Ok(letter \o <<" ">> \o zfill(str_int(collector_number(l).val), 4))
    ELSE Ok(<<>>)

\* NormalLayout.collector_data / TokenLayout.collector_data
collector_data(l) ==
    IF l.cls = "TokenLayout" THEN collector_line(l, <<"T">>)
    ELSE IF rarity_letter(l).exc # "none" THEN RaiseStr(rarity_letter(l).exc)
    ELSE collector_line(l, rarity_letter(l).val)


(***************************************************************************)
(* __str__ and the lazily evaluated variant properties.                    *)
(***************************************************************************)
\* NormalLayout.__str__ / SplitLayout.__str__: name, " [SET]" when the set
\* code is not empty, " {number}" when collector_number is not 0.  Normal
\* prints the raw collector string, Split the parsed number.
str_layout(l) ==
    LET head == IF l.cls = "SplitLayout" THEN display_name(l) ELSE name(l)
        setpart == IF set_code(l) # <<>>
                   THEN <<" ", "[">> \o set_code(l) \o <<"]">> ELSE <<>>
        shown == IF l.cls = "SplitLayout"
                 THEN str_int(collector_number(l).val)
                 ELSE collector_number_raw(l).val
    IN  IF head.exc # "none" THEN RaiseStr(head.exc)
        ELSE IF collector_number(l).exc # "none" THEN RaiseStr(collector_number(l).exc)
        ELSE Ok(head.val \o setpart \o
                (IF collector_number(l).val # 0
                 THEN <<" ", "{">> \o shown \o <<"}">> ELSE <<>>))

\* PrototypeLayout.proto_details: oracle_text.split("\n", 1) unpacked into two
\* names, then PROTOTYPE.match(first line)[1] and [2].
proto_details(l) ==
    CASE l.scryfall.oracle_text = "absent" -> "AttributeError"
      [] l.scryfall.oracle_text = "one_line" -> "ValueError"
      [] l.scryfall.oracle_text = "prototype" -> "none"
      [] OTHER -> "TypeError"

\* StationLayout.oracle_text / stations: oracle_text_unprocessed.index("\nSTATION ")
station_index(l) == IF l.scryfall.oracle_text = "station" THEN "none" ELSE "ValueError"

\* AdventureLayout.adventure: scryfall['card_faces'][1]
adventure(l) ==
    IF ~l.scryfall.card_faces.present THEN "KeyError"
    ELSE IF Len(l.scryfall.card_faces.val) < 2 THEN "IndexError"
    ELSE "none"

\* Reading the variant's own properties of a layout object for the first time.
variant_read(l) ==
    CASE l.cls = "PrototypeLayout" -> proto_details(l)
      [] l.cls = "StationLayout" -> station_index(l)
      [] l.cls = "AdventureLayout" -> adventure(l)
      [] OTHER -> "none"

(***************************************************************************)
(* assign_layout                                                           *)
(***************************************************************************)
\* src.console.msg_error(name, reason=...): a string.
msg_error(f, reason) == [kind |-> "str", reason |-> reason, name |-> f.file]

Raised(e) == [kind |-> "raise", exc |-> e]

\* scryfall.get('layout', 'None')
layout_tag(sf) == IF sf.layout.present THEN sf.layout.val ELSE "None"

assign_layout(f, sf) ==
    IF ~sf.found THEN msg_error(f, "Scryfall search failed")
    ELSE IF layout_tag(sf) \in DOMAIN layout_map
    THEN LET layout == NewLayout(layout_map[layout_tag(sf)], sf, f)
         IN  IF init_layout(layout) # "none"
             THEN msg_error(f, "Layout generation failed")
             ELSE IF ~cfg.test_mode /\ str_layout(layout).exc # "none"
             THEN Raised(str_layout(layout).exc)
             ELSE layout
    ELSE msg_error(f, "Layout incompatible")

(***************************************************************************)
(* Inputs of the model.                                                    *)
(***************************************************************************)
Fire == <<"F", "i", "r", "e">>
Ice == <<"I", "c", "e">>
FireIce == Fire \o <<" ", "/", "/", " ">> \o Ice
Dmr == <<"d", "m", "r">>

NoTag == [present |-> FALSE, val |-> ""]
NoFaces == [present |-> FALSE, val |-> <<>>]
Face(n) == [name |-> n]
FaceLists == {NoFaces, Some(<<>>), Some(<<Face(Fire)>>), Some(<<Face(Fire), Face(Ice)>>)}

Unused == "unused"
NoCard == [found |-> FALSE]
NoSetData == [count_printed |-> NoneInt, count_cards |-> NoneInt,
              count_tokens |-> NoneInt, code_parent |-> None]

Strings(chars, n) == UNION {[1..k -> chars] : k \in 0..n}

CollectorChars == {"0", "5", "7", "*"}
Counts == {NoneInt} \cup {[present |-> TRUE, val |-> v] : v \in {0, 7, 230}}

Record(tag, front, faces, frame_error, number, rar, text) ==
    [found |-> TRUE, layout |-> tag, front |-> front, card_faces |-> faces,
     name |-> IF faces.present /\ Len(faces.val) = 2 THEN FireIce ELSE Fire,
     set |-> Some(Dmr), collector_number |-> number, rarity |-> rar,
     frame_error |-> frame_error, oracle_text |-> text]

ArtFile(path, n) == [file |-> path, name |-> n]

(***************************************************************************)
(* One art file: assign_layout, then the renderer reads the layout object. *)
(***************************************************************************)
AssignLayout ==
    /\ pc = "start"
    /\ result' = assign_layout(file, scryfall)
    /\ pc' = "assigned"
    /\ UNCHANGED <<cfg, con, file, scryfall, view, layouts, joined>>

ReadLayout ==
    /\ pc = "assigned"
    /\ result.kind = "layout"
    /\ view' = [card_class |-> card_class(result),
                collector_number |-> collector_number(result),
                card_count |-> card_count(result),
                collector_data |-> collector_data(result),
                set |-> set_code(result),
                variant |-> variant_read(result)]
    /\ pc' = "read"
    /\ UNCHANGED <<cfg, con, file, scryfall, result, layouts, joined>>

NextFile == AssignLayout \/ ReadLayout

\* Collector info: normal and token records over every raw collector string
\* and set count of the bounds.
InitCollector ==
    /\ cfg \in [collector_mode : CollectorModes, test_mode : BOOLEAN]
    /\ \E tag \in {"normal", "token"} :
         /\ \/ /\ tag = "normal"
               /\ con \in [count_printed : Counts, count_cards : Counts,
                           count_tokens : {NoneInt}, code_parent : {None}]
            \/ /\ tag = "token"
               /\ con \in [count_printed : {NoneInt}, count_cards : {NoneInt},
                           count_tokens : Counts, code_parent : {None, Some(<<"m", "h", "3">>)}]
         /\ \E number \in {None} \cup {Some(s) : s \in Strings(CollectorChars, MaxLen)},
               rar \in {None, Some(Rarity_M)} :
              scryfall = Record(Some(tag), "absent", NoFaces, FALSE, number, rar, "one_line")
    /\ file = ArtFile("f1", Fire)
    /\ result = Unused /\ view = Unused /\ layouts = Unused /\ joined = Unused
    /\ pc = "start"

SpecCollector == InitCollector /\ [][NextFile]_vars

\* Classification: every layout tag, with the fields the constructor, the
\* display string and the variant properties read.
TagInputs == {NoTag, Some("unknown")} \cup {Some(t) : t \in DOMAIN layout_map}
OtherFields ==
    [faces : FaceLists, frame_error : BOOLEAN,
     number : {None, Some(<<"7">>), Some(<<"*">>)},
     text : {"absent", "one_line", "two_lines", "prototype", "station"}]

RecordOf(tag, front, o) ==
    Record(tag, front, o.faces, o.frame_error, o.number, None, o.text)

InitAssign ==
    /\ cfg \in [collector_mode : {"Normal"}, test_mode : BOOLEAN]
    /\ con = NoSetData
    /\ file \in {ArtFile("f1", Fire), ArtFile("f1", Ice)}
    /\ \/ scryfall = NoCard
       \/ \E tag \in TagInputs, front \in {"absent", "true", "false"}, o \in OtherFields :
            scryfall = RecordOf(tag, front, o)
    /\ result = Unused /\ view = Unused /\ layouts = Unused /\ joined = Unused
    /\ pc = "start"

SpecAssign == InitAssign /\ [][NextFile]_vars


(***************************************************************************)
(* join_dual_card_layouts                                                  *)
(***************************************************************************)
\* Mutant of unpack: a Path unpacks like a one-element list.
unpack_path_as_list(v) == Ok(v.items)

\* [*v]: iterating a list gives its items, iterating a Path raises TypeError.
unpack(v) == IF v.is_list THEN Ok(v.items) ELSE RaiseStr("TypeError")

\* Object identity of the results of one batch: one object per art file.
ident(x) == x.file.file

IsSplit(x) == x.kind # "str" /\ card_class(x) = "Split"

\* card.name[0]: the first character of a string.
first_char(s) == IF s = <<>> THEN RaiseStr("IndexError") ELSE Ok(<<s[1]>>)

\* The body of `if str(c) == str(card):` for the objects card and c of st.objs.
join_pair(st, cid, oid) ==
    LET crd == st.objs[cid]
        c == st.objs[oid]
        nm == name(crd)
        ch == IF nm.exc # "none" THEN nm ELSE first_char(nm.val)
        own_first == normalize_str(ch.val) = normalize_str(crd.file.name)
        a == IF own_first THEN unpack(crd.art_file) ELSE unpack(c.art_file)
        b == IF own_first THEN unpack(c.art_file) ELSE unpack(crd.art_file)
    IN  IF ch.exc # "none" THEN [st EXCEPT !.exc = ch.exc]
        ELSE IF a.exc # "none" THEN [st EXCEPT !.exc = a.exc]
        ELSE IF b.exc # "none" THEN [st EXCEPT !.exc = b.exc]
        ELSE [st EXCEPT !.objs[cid].art_file = ListValue(a.val \o b.val),
                        !.skip = st.skip \o <<cid, oid>>]

\* One pass of `for c in split:` for the object card: c is skipped when it is
\* card itself, str(c) and str(card) are compared, equal strings are joined.
join_inner_step(st, cid, oid) ==
    LET s_c == str_layout(st.objs[oid])
        s_card == str_layout(st.objs[cid])
    IN  IF oid = cid THEN st
        ELSE IF s_c.exc # "none" THEN [st EXCEPT !.exc = s_c.exc]
        ELSE IF s_card.exc # "none" THEN [st EXCEPT !.exc = s_card.exc]
        ELSE IF s_c.val = s_card.val THEN join_pair(st, cid, oid)
        ELSE st

\* `for c in split:` for the object card, over the remaining ids cs.
RECURSIVE join_inner(_, _, _)
join_inner(st, cid, cs) ==
    IF cs = <<>> \/ st.exc # "none" THEN st
    ELSE CHOOSE r \in {join_inner(nxt, cid, Tail(cs)) :
                          nxt \in {join_inner_step(st, cid, Head(cs))}} : TRUE

\* One pass of `for card in split:`: a card in skip is passed over, any other
\* card goes through the inner loop and is appended to add.
join_outer_step(st, cid, all) ==
    IF \E i \in DOMAIN st.skip : st.skip[i] = cid THEN st
    ELSE CHOOSE r \in {IF after.exc # "none" THEN after
                       ELSE [after EXCEPT !.add = after.add \o <<cid>>] :
                          after \in {join_inner(st, cid, all)}} : TRUE

\* `for card in split:` over the remaining ids, all being the ids of split.
RECURSIVE join_outer(_, _, _)
join_outer(st, rest, all) ==
    IF rest = <<>> \/ st.exc # "none" THEN st
    ELSE CHOOSE r \in {join_outer(nxt, Tail(rest), all) :
                          nxt \in {join_outer_step(st, Head(rest), all)}} : TRUE

\* The call's result from the state its loops ended in.
join_result(normal, st) ==
    IF st.exc # "none" THEN [kind |-> "raise", exc |-> st.exc, objs |-> st.objs]
    ELSE [kind |-> "list",
          items |-> normal \o [i \in DOMAIN st.add |-> st.objs[st.add[i]]],
          objs |-> st.objs]

\* join_dual_card_layouts(layouts): the returned list, or the exception, and
\* the layout objects as the call left them.
join_dual_card_layouts(ls) ==
    LET normal == SelectSeq(ls, LAMBDA n : ~IsSplit(n))
        split == SelectSeq(ls, IsSplit)
        ids == [i \in DOMAIN split |-> ident(split[i])]
        objs == [id \in {ident(split[i]) : i \in DOMAIN split} |->
                   split[CHOOSE i \in DOMAIN split : ident(split[i]) = id]]
    IN  IF split = <<>> THEN [kind |-> "list", items |-> normal, objs |-> objs]
        ELSE CHOOSE r \in
                {join_result(normal, st) :
                    st \in {join_outer(st0, ids, ids) :
                              st0 \in {[objs |-> objs, skip |-> <<>>,
                                        add |-> <<>>, exc |-> "none"]}}} : TRUE

(***************************************************************************)
(* A batch: every art file is classified, then the results are joined.     *)
(***************************************************************************)
FilePaths == <<"f1", "f2", "f3", "f4", "f5", "f6">>

SplitRecord(faces, number) == Record(Some("split"), "absent", faces, FALSE, number, None, "one_line")

BatchRecords ==
    {NoCard,
     Record(Some("normal"), "absent", NoFaces, FALSE, Some(<<"7">>), None, "one_line")}
    \cup {SplitRecord(faces, Some(number)) :
            faces \in {Some(<<Face(Fire)>>), Some(<<Face(Fire), Face(Ice)>>)},
            number \in {<<"7">>, <<"7", "*">>, <<"8">>}}

\* The objects of xs as the call that returned `out` left them.
Refresh(xs, out) ==
    [i \in DOMAIN xs |->
        IF xs[i].kind = "layout" /\ ident(xs[i]) \in DOMAIN out.objs
        THEN out.objs[ident(xs[i])] ELSE xs[i]]

Classify ==
    /\ pc = "classify"
    /\ Len(layouts) < MaxFiles
    /\ \E n \in {Fire, Ice}, sf \in BatchRecords :
         LET f == ArtFile(FilePaths[Len(layouts) + 1], n)
             r == assign_layout(f, sf)
         IN  IF r.kind = "raise"
             THEN /\ pc' = "failed"
                  /\ result' = r
                  /\ UNCHANGED layouts
             ELSE /\ layouts' = Append(layouts, r)
                  /\ UNCHANGED <<pc, result>>
    /\ UNCHANGED <<cfg, con, file, scryfall, view, joined>>

Join ==
    /\ pc \in {"classify", "joined"}
    /\ Len(joined) < MaxJoins
    /\ joined # <<>> => joined[Len(joined)].kind = "list"
    /\ \E out \in {join_dual_card_layouts(IF joined = <<>> THEN layouts
                                          ELSE joined[Len(joined)].items)} :
           /\ joined' = Append([i \in DOMAIN joined |->
                                    [joined[i] EXCEPT !.items = Refresh(joined[i].items, out)]],
                               IF out.kind = "list"
                               THEN [kind |-> "list", items |-> out.items]
                               ELSE [kind |-> "raise", exc |-> out.exc])
           /\ layouts' = Refresh(layouts, out)
    /\ pc' = "joined"
    /\ UNCHANGED <<cfg, con, file, scryfall, result, view>>

Init ==
    /\ cfg \in [collector_mode : {"Normal"}, test_mode : BOOLEAN]
    /\ con = NoSetData
    /\ file = Unused /\ scryfall = Unused /\ result = Unused /\ view = Unused
    /\ layouts = <<>>
    /\ joined = <<>>
    /\ pc = "classify"

Next == Classify \/ Join

Spec == Init /\ [][Next]_vars

(***************************************************************************)
(* Collector info claims (SpecCollector).                                  *)
(***************************************************************************)
Raw == scryfall.collector_number
HasDigit(s) == \E i \in DOMAIN s : s[i] \in {"0", "1", "2", "3", "4", "5", "6", "7", "8", "9"}

\* The number the digit characters of s spell, read left to right.
RECURSIVE DigitsValue(_, _)
DigitsValue(s, acc) ==
    IF s = <<>> THEN acc
    ELSE IF HasDigit(<<Head(s)>>)
         THEN DigitsValue(Tail(s), 10 * acc + DigitVal(Head(s)))
         ELSE DigitsValue(Tail(s), acc)

\* C8: for every raw collector string the collector number is the integer
\* spelled by its digit characters, 0 when the string is absent, and reading
\* it never fails.
C8_CollectorNumberNeverFails ==
    pc = "read" =>
        /\ view.collector_number.exc = "none"
        /\ ~Raw.present => view.collector_number.val = 0
        /\ Raw.present => view.collector_number.val = DigitsValue(Raw.val, 0)

\* The resolved set count: the printed count when the set data has it, the
\* raw card count otherwise.
ResolvedCount == IF con.count_printed.present THEN con.count_printed ELSE con.count_cards

\* C9: card_count (all classes but Token) is present only in Normal collector
\* mode with a raw collector number; when present it is the printed count, or
\* the raw card count when the set has no printed count; it is absent when the
\* set has neither count and absent when the resolved count is smaller than
\* the collector number; a resolved count that is not smaller is present.
C9_CardCount ==
    (pc = "read" /\ result.cls # "TokenLayout") =>
        LET cc == view.card_count
            num == view.collector_number
        IN  /\ (cc.exc = "none" /\ cc.val.present) =>
                  /\ cfg.collector_mode = "Normal"
                  /\ Raw.present /\ Raw.val # <<>>
                  /\ cc.val = ResolvedCount
            /\ ~ResolvedCount.present => cc = Ok(NoneInt)
            /\ (ResolvedCount.present /\ num.exc = "none" /\ ResolvedCount.val < num.val)
                  => cc = Ok(NoneInt)
            /\ (cfg.collector_mode = "Normal" /\ Raw.present /\ Raw.val # <<>>
                /\ ResolvedCount.present /\ num.exc = "none"
                /\ ResolvedCount.val >= num.val) => cc = Ok(ResolvedCount)

\* C9 witness: a card_count taken from the raw card count of a set without a
\* printed count.
C9_Witness ==
    /\ pc = "read" /\ result.cls = "NormalLayout"
    /\ view.card_count.exc = "none" /\ view.card_count.val.present
    /\ ~con.count_printed.present
    /\ view.card_count.val.val = 230 /\ view.collector_number.val = 50

Pad(n, width) == zfill(str_int(n), width)
Letter == <<upper_char(rarity(result)[1])>>

\* C10: the collector line is NNN/CCC L for every present card_count, else
\* L NNNN when a raw collector number exists, else the empty string.
C10_CollectorLine ==
    (pc = "read" /\ result.cls # "TokenLayout") =>
        LET cc == view.card_count
            num == view.collector_number
        IN  IF cc.exc = "none" /\ cc.val.present
            THEN view.collector_data =
                    Ok(Pad(num.val, 3) \o <<"/">> \o Pad(cc.val.val, 3) \o <<" ">> \o Letter)
            ELSE IF Raw.present /\ Raw.val # <<>>
            THEN view.collector_data = Ok(Letter \o <<" ">> \o Pad(DigitsValue(Raw.val, 0), 4))
            ELSE view.collector_data = Ok(<<>>)


(***************************************************************************)
(* Classification claims (SpecAssign).                                     *)
(***************************************************************************)
Assigned == pc \in {"assigned", "read"}
IsError(r, reason) == r.kind = "str" /\ r.reason = reason

Tag == IF scryfall.layout.present THEN scryfall.layout.val ELSE "None"
Supported == Tag \in DOMAIN layout_map
NumFaces == IF scryfall.card_faces.present THEN Len(scryfall.card_faces.val) ELSE 0

\* The constructor's own reads fail: the frame of the main face cannot be
\* computed, or a Split record has no face to take as the main one.
ConstructorFails == scryfall.frame_error \/ (Tag = "split" /\ NumFaces = 0)

\* A variant sub-parser cannot read the record: the Prototype announcement
\* line, the Station marker, the second Adventure face.
SubParserFails ==
    \/ Tag = "prototype" /\ scryfall.oracle_text # "prototype"
    \/ Tag = "station" /\ scryfall.oracle_text # "station"
    \/ Tag = "adventure" /\ NumFaces < 2

\* C1: assign_layout ends in LookupFailed, else UnsupportedLayout, else
\* LayoutConstructionFailed, else the layout instance, decided in this order,
\* and never raises.
C1_FourOutcomes ==
    Assigned =>
        IF ~scryfall.found THEN IsError(result, "Scryfall search failed")
        ELSE IF ~Supported THEN IsError(result, "Layout incompatible")
        ELSE IF ConstructorFails THEN IsError(result, "Layout generation failed")
        ELSE result.kind = "layout"

\* C2 as stated: a failing sub-parser of a supported tag makes classification
\* return LayoutConstructionFailed, and no returned instance fails when its
\* variant fields are read.
C2_SubParserFailureIsCaught ==
    /\ (Assigned /\ scryfall.found /\ Supported /\ SubParserFails)
          => IsError(result, "Layout generation failed")
    /\ pc = "read" => view.variant = "none"

\* C2 amended: for a supported tag LayoutConstructionFailed is returned exactly
\* when the constructor's own reads fail; the variant sub-parsers run on first
\* read, so a record whose sub-parser fails and whose constructor succeeds is
\* not reported as LayoutConstructionFailed, and reading the variant fields of
\* the returned instance raises.
C2_ConstructionFailedIffConstructorFails ==
    /\ (Assigned /\ scryfall.found /\ Supported) =>
          (IsError(result, "Layout generation failed") <=> ConstructorFails)
    /\ (pc = "read" /\ SubParserFails) => view.variant # "none"

\* C2 witness: a Prototype instance was returned for an announcement line
\* that does not match, and reading its prototype details raised.
C2_Witness ==
    /\ pc = "read" /\ result.cls = "PrototypeLayout"
    /\ scryfall.oracle_text = "two_lines"
    /\ view.variant = "TypeError"

IsFrontFlag(front) == front \in {"absent", "true"}

JoinedOnce == Len(joined) >= 1

SplitsOf(xs) == {i \in DOMAIN xs : IsSplit(xs[i])}
HasKey(x) == str_layout(x).exc = "none"
SameKey(x, y) == HasKey(x) /\ HasKey(y) /\ str_layout(x).val = str_layout(y).val

\* The art file of x is named like face n of its record.
NamedLikeFace(x, n) ==
    /\ Len(cards(x)) >= n
    /\ normalize_str(x.file.name) = normalize_str(cards(x)[n].name)

\* The entries of the returned list that are the object x.
EntriesOf(out, x) ==
    {m \in DOMAIN out.items : out.items[m].kind = "layout" /\ ident(out.items[m]) = ident(x)}

\* C3: two Split instances with the same display string, one named like face
\* 0 and one like face 1, and no third instance with that string, come out as
\* one merged instance whose art files are [face-0 file, face-1 file].
C3_PairMergedInFaceOrder ==
    JoinedOnce =>
        \A i \in SplitsOf(layouts), j \in SplitsOf(layouts) :
            (/\ i # j
             /\ SameKey(layouts[i], layouts[j])
             /\ NamedLikeFace(layouts[i], 1) /\ NamedLikeFace(layouts[j], 2)
             /\ \A k \in SplitsOf(layouts) \ {i, j} : ~SameKey(layouts[k], layouts[i]))
            => /\ joined[1].kind = "list"
               /\ Cardinality(EntriesOf(joined[1], layouts[i])
                              \cup EntriesOf(joined[1], layouts[j])) = 1
               /\ \A m \in EntriesOf(joined[1], layouts[i]) \cup EntriesOf(joined[1], layouts[j]) :
                     joined[1].items[m].art_file =
                         ListValue(<<layouts[i].file.file, layouts[j].file.file>>)

\* C4: merging is idempotent: the merge of a batch returns a list, and the
\* merge of that list returns the same instances with the same art files.
C4_JoinIdempotent ==
    /\ JoinedOnce => joined[1].kind = "list"
    /\ Len(joined) >= 2 => joined[2] = joined[1]

NotSplit(x) == ~IsSplit(x)

\* C5: the merge returns every non-Split input once, unchanged and in the
\* original order, and every Split instance that shares its display string
\* with no other instance once, with its art file unchanged.
C5_OthersUntouched ==
    JoinedOnce =>
        /\ joined[1].kind = "list"
        /\ SelectSeq(joined[1].items, NotSplit) = SelectSeq(layouts, NotSplit)
        /\ \A i \in SplitsOf(layouts) :
              (\A k \in SplitsOf(layouts) \ {i} : ~SameKey(layouts[k], layouts[i]))
              => /\ Cardinality(EntriesOf(joined[1], layouts[i])) = 1
                 /\ \A m \in EntriesOf(joined[1], layouts[i]) :
                       joined[1].items[m].art_file = PathValue(layouts[i].file.file)

\* Three Split instances of the batch share one display string.
GroupOfThree ==
    \E i \in SplitsOf(layouts), j \in SplitsOf(layouts), k \in SplitsOf(layouts) :
        /\ i < j /\ j < k
        /\ SameKey(layouts[i], layouts[j]) /\ SameKey(layouts[j], layouts[k])

\* Two Split instances of the batch share one display string.
GroupOfTwo ==
    \E i \in SplitsOf(layouts), j \in SplitsOf(layouts) :
        i < j /\ SameKey(layouts[i], layouts[j])

WatermarkModes == {"Disabled", "Forced", "Automatic", "Fallback"}

Wotc == <<"w", "o", "t", "c">>
Dci == <<"d", "c", "i">>
KeySet == <<"s", "e", "t">>
KeySymbol == <<"s", "y", "m", "b", "o", "l">>

\* The watermark files on disk: keys with an SVG of their own and set codes
\* with a symbol collection.
WatermarkAssets == {Wotc, Dci}
SetAssets == {<<"D", "M", "R">>}

\* src.utils.hexapi.get_watermark_svg(wm) / get_watermark_svg_from_set(code)
get_watermark_svg(wm) ==
    IF wm \in WatermarkAssets THEN Some([dir |-> "watermark", key |-> wm]) ELSE None

get_watermark_svg_from_set(code) ==
    IF upper(code) \in SetAssets THEN Some([dir |-> "set", key |-> upper(code)]) ELSE None

\* first_print.get('set', self.set)
first_print_set(l) ==
    IF l.scryfall.first_print.present THEN l.scryfall.first_print.val ELSE set_code(l)

\* Mutant of find_watermark_svg: the two sentinels are taken for each other.
find_watermark_svg_swapped(l, wm) ==
    IF ~truthy_str(wm) THEN None
    ELSE LET k == lower(wm.val)
         IN  IF k = KeySymbol THEN get_watermark_svg_from_set(first_print_set(l))
             ELSE IF k = KeySet THEN get_watermark_svg_from_set(set_code(l))
             ELSE get_watermark_svg(k)

\* _find_watermark_svg(wm) of watermark_svg and watermark_svgs.
find_watermark_svg(l, wm) ==
    IF ~truthy_str(wm) THEN None
    ELSE LET k == lower(wm.val)
         IN  IF k = KeySet THEN get_watermark_svg_from_set(first_print_set(l))
             ELSE IF k = KeySymbol THEN get_watermark_svg_from_set(set_code(l))
             ELSE get_watermark_svg(k)

\* The calls _find_watermark_svg(wm) makes to the asset functions.
watermark_asset_calls(l, wm) ==
    IF ~truthy_str(wm) THEN <<>>
    ELSE LET k == lower(wm.val)
         IN  IF k = KeySet THEN <<[fn |-> "get_watermark_svg_from_set", arg |-> first_print_set(l)]>>
             ELSE IF k = KeySymbol
             THEN <<[fn |-> "get_watermark_svg_from_set", arg |-> set_code(l)]>>
             ELSE <<[fn |-> "get_watermark_svg", arg |-> k]>>

\* SplitLayout.watermarks_raw: [c.get('watermark', '') for c in self.cards]
watermarks_raw(l) ==
    [i \in DOMAIN cards(l) |->
        IF cards(l)[i].watermark.present THEN cards(l)[i].watermark ELSE Some(<<>>)]

\* watermark_raw: NormalLayout reads card.get('watermark'), SplitLayout
\* returns watermarks_raw[0].
watermark_raw(l) ==
    IF l.cls = "SplitLayout"
    THEN IF watermarks_raw(l) = <<>> THEN RaiseStr("IndexError") ELSE Ok(watermarks_raw(l)[1])
    ELSE Ok(card(l).val.watermark)

\* Mutant of select_watermark: Forced looks at the face's own key first.
select_watermark_own_first(l, w) ==
    IF cfg.watermark_mode = "Disabled" THEN None
    ELSE IF find_watermark_svg(l, w).present \/ cfg.watermark_mode = "Automatic"
    THEN find_watermark_svg(l, w)
    ELSE find_watermark_svg(l, Some(cfg.watermark_default))

\* Mutant of select_watermark: Automatic falls back to the default key.
select_watermark_always_fallback(l, w) ==
    IF cfg.watermark_mode = "Disabled" THEN None
    ELSE IF cfg.watermark_mode = "Forced"
    THEN find_watermark_svg(l, Some(cfg.watermark_default))
    ELSE IF find_watermark_svg(l, w).present THEN find_watermark_svg(l, w)
    ELSE find_watermark_svg(l, Some(cfg.watermark_default))

\* The mode policy of watermark_svg (and of one pass of the loop of
\* watermark_svgs) for the raw key w.
select_watermark(l, w) ==
    IF cfg.watermark_mode = "Disabled" THEN None
    ELSE IF cfg.watermark_mode = "Forced"
    THEN find_watermark_svg(l, Some(cfg.watermark_default))
    ELSE LET path == find_watermark_svg(l, w)
         IN  IF path.present \/ cfg.watermark_mode = "Automatic" THEN path
             ELSE find_watermark_svg(l, Some(cfg.watermark_default))

\* The keys passed to _find_watermark_svg by that policy, in call order.
watermark_lookups(l, w) ==
    IF cfg.watermark_mode = "Disabled" THEN <<>>
    ELSE IF cfg.watermark_mode = "Forced" THEN <<Some(cfg.watermark_default)>>
    ELSE IF find_watermark_svg(l, w).present \/ cfg.watermark_mode = "Automatic" THEN <<w>>
    ELSE <<w, Some(cfg.watermark_default)>>

\* SplitLayout.watermark_svgs
watermark_svgs(l) == [i \in DOMAIN watermarks_raw(l) |-> select_watermark(l, watermarks_raw(l)[i])]

\* watermark_svg: NormalLayout applies the policy to watermark_raw,
\* SplitLayout returns watermark_svgs[0].
watermark_svg(l) ==
    IF l.cls = "SplitLayout"
    THEN IF watermark_svgs(l) = <<>> THEN [exc |-> "IndexError", val |-> None]
         ELSE Ok(watermark_svgs(l)[1])
    ELSE Ok(select_watermark(l, watermark_raw(l).val))

\* Inputs: raw watermark keys of a face, configured default keys, records
\* with a watermark of their own or on each of two faces.
Lea == <<"l", "e", "a">>
RawKeys == {None, Some(<<>>), Some(Wotc), Some(upper(Wotc)), Some(<<"x">>),
            Some(KeySet), Some(KeySymbol)}
DefaultKeys == {<<>>, Dci, <<"x">>, KeySet, Wotc}

WmFace(n, w) == [name |-> n, watermark |-> w]

WmRecord(tag, faces, w, code, fp) ==
    [watermark |-> w, first_print |-> fp]
        @@ [Record(Some(tag), "absent", faces, FALSE, None, None, "one_line")
               EXCEPT !.set = Some(code)]

\* The watermark selected for each face the layout object has, the raw keys
\* they were selected from, the keys looked up for each and what each lookup
\* called and returned.
ReadWatermark ==
    /\ pc = "assigned"
    /\ result.kind = "layout"
    /\ LET raws == IF result.cls = "SplitLayout" THEN watermarks_raw(result)
                   ELSE <<watermark_raw(result).val>>
       IN  view' = [watermark_svg |-> watermark_svg(result),
                    svgs |-> IF result.cls = "SplitLayout" THEN watermark_svgs(result)
                             ELSE <<watermark_svg(result).val>>,
                    raws |-> raws,
                    lookups |-> [i \in DOMAIN raws |-> watermark_lookups(result, raws[i])],
                    resolved |-> [i \in DOMAIN raws |->
                        [n \in DOMAIN watermark_lookups(result, raws[i]) |->
                            [path |-> find_watermark_svg(result,
                                                         watermark_lookups(result, raws[i])[n]),
                             calls |-> watermark_asset_calls(result,
                                                         watermark_lookups(result, raws[i])[n])]]]]
    /\ pc' = "read"
    /\ UNCHANGED <<cfg, con, file, scryfall, result, layouts, joined>>

NextWatermark == AssignLayout \/ ReadWatermark

InitWatermark ==
    /\ cfg \in [collector_mode : {"Normal"}, test_mode : BOOLEAN,
                watermark_mode : WatermarkModes, watermark_default : DefaultKeys]
    /\ con = NoSetData
    /\ file \in {ArtFile("f1", Fire), ArtFile("f1", Ice)}
    /\ \E code \in {Dmr, Lea}, fp \in {None, Some(Dmr), Some(Lea)} :
         \/ \E w \in RawKeys : scryfall = WmRecord("normal", NoFaces, w, code, fp)
         \/ \E tag \in {"transform", "split"}, w1 \in RawKeys, w2 \in RawKeys :
              scryfall = WmRecord(tag, Some(<<WmFace(Fire, w1), WmFace(Ice, w2)>>),
                                  None, code, fp)
    /\ result = Unused /\ view = Unused /\ layouts = Unused /\ joined = Unused
    /\ pc = "start"

SpecWatermark == InitWatermark /\ [][NextWatermark]_vars

(***************************************************************************)
(* Watermark claims (SpecWatermark).                                       *)
(***************************************************************************)
DefaultResolution == find_watermark_svg(result, Some(cfg.watermark_default))

\* C11: in mode Disabled every face's watermark is none, in mode Forced it is
\* the resolution of the configured default key, and in both modes the
\* selection is the same for every raw key the face could carry; this holds
\* for each face of a Split instance.
C11_DisabledAndForcedIgnoreRaw ==
    pc = "read" =>
        /\ cfg.watermark_mode = "Disabled" => \A i \in DOMAIN view.svgs : view.svgs[i] = None
        /\ cfg.watermark_mode = "Forced" =>
              \A i \in DOMAIN view.svgs : view.svgs[i] = DefaultResolution
        /\ cfg.watermark_mode \in {"Disabled", "Forced"} =>
              \A i \in DOMAIN view.svgs, w \in RawKeys :
                  select_watermark(result, w) = view.svgs[i]

\* C11 witness: a Split instance whose first face carries a resolvable key of
\* its own was read in mode Forced and both faces got the default's asset.
C11_Witness ==
    /\ pc = "read" /\ result.cls = "SplitLayout"
    /\ cfg.watermark_mode = "Forced" /\ cfg.watermark_default = Dci
    /\ view.raws[1] = Some(Wotc)
    /\ view.svgs = <<Some([dir |-> "watermark", key |-> Dci]),
                     Some([dir |-> "watermark", key |-> Dci])>>

\* C12: in modes Automatic and Fallback the face's own key is looked up first
\* and its asset, when found, is the result; when it is not found Automatic
\* gives none without looking up the default key and Fallback gives the
\* resolution of the default key.
C12_AutomaticAndFallback ==
    (pc = "read" /\ cfg.watermark_mode \in {"Automatic", "Fallback"}) =>
        \A i \in DOMAIN view.svgs :
            LET own == find_watermark_svg(result, view.raws[i])
            IN  /\ Head(view.lookups[i]) = view.raws[i]
                /\ own.present => view.svgs[i] = own /\ view.lookups[i] = <<view.raws[i]>>
                /\ (~own.present /\ cfg.watermark_mode = "Automatic") =>
                      view.svgs[i] = None /\ view.lookups[i] = <<view.raws[i]>>
                /\ (~own.present /\ cfg.watermark_mode = "Fallback") =>
                      view.svgs[i] = DefaultResolution

\* C12 witness: mode Fallback, no raw watermark on the card, default key
\* "wotc": the default's asset was selected.
C12_Witness ==
    /\ pc = "read" /\ result.cls = "NormalLayout"
    /\ cfg.watermark_mode = "Fallback" /\ cfg.watermark_default = Wotc
    /\ view.raws = <<None>>
    /\ view.watermark_svg = Ok(Some([dir |-> "watermark", key |-> Wotc]))


(***************************************************************************)
(* Rules text: Python string operations on sequences of characters.        *)
(***************************************************************************)
NL == "\n"
EmDash == "emdash"          \* the character U+2014

\* The first index at which sep occurs in s, 0 when it does not occur.
find(s, sep) ==
    LET hits == {i \in 1..(Len(s) - Len(sep) + 1) : SubSeq(s, i, i + Len(sep) - 1) = sep}
    IN  IF hits = {} THEN 0 ELSE CHOOSE i \in hits : \A j \in hits : i <= j

\* str.split(sep) for a non-empty separator.
RECURSIVE split(_, _)
split(s, sep) ==
    IF find(s, sep) = 0 THEN <<s>>
    ELSE <<SubSeq(s, 1, find(s, sep) - 1)>>
         \o split(SubSeq(s, find(s, sep) + Len(sep), Len(s)), sep)

\* str.split(sep, 1)
split_once(s, sep) ==
    IF find(s, sep) = 0 THEN <<s>>
    ELSE <<SubSeq(s, 1, find(s, sep) - 1), SubSeq(s, find(s, sep) + Len(sep), Len(s))>>

\* str.splitlines(): no line for the empty string or after a final newline.
splitlines(s) ==
    LET parts == split(s, <<NL>>)
    IN  IF parts[Len(parts)] = <<>> THEN SubSeq(parts, 1, Len(parts) - 1) ELSE parts

\* sep.join(parts)
RECURSIVE join(_, _)
join(parts, sep) ==
    IF parts = <<>> THEN <<>>
    ELSE IF Len(parts) = 1 THEN parts[1]
    ELSE parts[1] \o sep \o join(Tail(parts), sep)

\* str.strip()
Whitespace == {" ", NL}
RECURSIVE lstrip(_)
lstrip(s) == IF s # <<>> /\ Head(s) \in Whitespace THEN lstrip(Tail(s)) ELSE s
RECURSIVE rstrip(_)
rstrip(s) ==
    IF s # <<>> /\ s[Len(s)] \in Whitespace THEN rstrip(SubSeq(s, 1, Len(s) - 1)) ELSE s
strip(s) == rstrip(lstrip(s))

\* omnitils.strings.get_line(text, i): text.split('\n')[i], IndexError when the
\* text has fewer lines.
get_line(text, i) ==
    IF i + 1 > Len(split(text, <<NL>>)) THEN RaiseStr("IndexError")
    ELSE Ok(split(text, <<NL>>)[i + 1])

\* omnitils.strings.strip_lines(text, num) for num > 0: the text without its
\* first num lines.
strip_lines(text, num) ==
    LET parts == split(text, <<NL>>)
    IN  join(SubSeq(parts, num + 1, Len(parts)), <<NL>>)

\* NormalLayout.oracle_text (English data): card.get('oracle_text', '')
oracle_text(l) == l.scryfall.text

(***************************************************************************)
(* SagaLayout                                                              *)
(***************************************************************************)
\* SagaLayout._chapter_regex.match(line): ^[ ,IVXLCDM]+ followed by " — ".
ChapterChars == {" ", ",", "I", "V", "X", "L", "C", "D", "M"}
chapter_match(line) ==
    \E k \in 1..(Len(line) - 3) :
        /\ \A i \in 1..k : line[i] \in ChapterChars
        /\ SubSeq(line, k + 1, k + 3) = <<" ", EmDash, " ">>

\* SagaLayout.saga_text
saga_text(l) == join(SelectSeq(splitlines(oracle_text(l)), chapter_match), <<NL>>)

\* SagaLayout.ability_text
ability_text(l) ==
    LET lines == splitlines(strip_lines(oracle_text(l), 1))
        first == {i \in DOMAIN lines : ~chapter_match(lines[i])}
    IN  IF first = {} THEN <<>>
        ELSE join(SubSeq(lines, CHOOSE i \in first : \A j \in first : i <= j, Len(lines)),
                  <<NL>>)

\* Mutant of saga_description: CFG.remove_reminder is not looked at.
saga_description_always(l) ==
    LET line == get_line(oracle_text(l), 0)
    IN  IF line.exc # "none" THEN line
        ELSE IF chapter_match(line.val) THEN Ok(<<>>) ELSE line

\* SagaLayout.saga_description
saga_description(l) ==
    IF cfg.remove_reminder THEN Ok(<<>>)
    ELSE LET line == get_line(oracle_text(l), 0)
         IN  IF line.exc # "none" THEN line
             ELSE IF chapter_match(line.val) THEN Ok(<<>>) ELSE line

\* One pass of the loop of saga_lines over line number i (from 0).
saga_lines_step(abilities, i, line) ==
    IF find(line, <<EmDash>>) # 0
    THEN Ok(Append(abilities,
                   [text |-> strip(split_once(line, <<EmDash>>)[2]),
                    icons |-> split(strip(split_once(line, <<EmDash>>)[1]), <<",", " ">>)]))
    ELSE IF i = 0 THEN Ok(Append(abilities, [text |-> line, icons |-> <<>>]))
    ELSE IF abilities = <<>> THEN [exc |-> "IndexError", val |-> abilities]
    ELSE Ok([abilities EXCEPT ![Len(abilities)].text = @ \o <<NL>> \o line])

RECURSIVE saga_lines_loop(_, _, _)
saga_lines_loop(abilities, i, lines) ==
    IF i >= Len(lines) THEN Ok(abilities)
    ELSE CHOOSE r \in
            {IF nxt.exc # "none" THEN nxt ELSE saga_lines_loop(nxt.val, i + 1, lines) :
                nxt \in {saga_lines_step(abilities, i, lines[i + 1])}} : TRUE

\* SagaLayout.saga_lines
saga_lines(l) == saga_lines_loop(<<>>, 0, split(saga_text(l), <<NL>>))

\* Inputs: oracle texts of up to MaxLines lines.
MaxLines == 3

LineRead == <<"R", "e", "a", "d">>
LineFly == <<"F", "l", "y">>
LineChapterI == <<"I", " ", EmDash, " ", "a">>
LineChapterII == <<"I", "I", ",", " ", "I", "I", "I", " ", EmDash, " ", " ", "b", " ">>
LineDash == <<"a", " ", EmDash, " ", "b">>
SagaLinePool == {LineRead, LineFly, LineChapterI, LineChapterII, LineDash, <<>>}

Texts(pool, n) == {join(ls, <<NL>>) : ls \in UNION {[1..k -> pool] : k \in 0..n}}

TextRecord(tag, text) ==
    [text |-> text] @@ Record(Some(tag), "absent", NoFaces, FALSE, Some(<<"7">>), None, "one_line")

ReadSaga ==
    /\ pc = "assigned"
    /\ result.kind = "layout"
    /\ view' = [saga_text |-> saga_text(result),
                saga_lines |-> saga_lines(result),
                saga_description |-> saga_description(result),
                ability_text |-> ability_text(result)]
    /\ pc' = "read"
    /\ UNCHANGED <<cfg, con, file, scryfall, result, layouts, joined>>

NextSaga == AssignLayout \/ ReadSaga

InitSaga ==
    /\ cfg \in [collector_mode : {"Normal"}, test_mode : BOOLEAN, remove_reminder : BOOLEAN]
    /\ con = NoSetData
    /\ file = ArtFile("f1", Fire)
    /\ \E text \in Texts(SagaLinePool, MaxLines) : scryfall = TextRecord("saga", text)
    /\ result = Unused /\ view = Unused /\ layouts = Unused /\ joined = Unused
    /\ pc = "start"

SpecSaga == InitSaga /\ [][NextSaga]_vars

(***************************************************************************)
(* Saga claims (SpecSaga).                                                 *)
(***************************************************************************)
TextLines == splitlines(scryfall.text)
ChapterLines == SelectSeq(TextLines, chapter_match)
Icons(line) == split(strip(split_once(line, <<EmDash>>)[1]), <<",", " ">>)
ChapterText(line) == strip(split_once(line, <<EmDash>>)[2])

\* C13: saga_lines holds one chapter per chapter line of the oracle text, in
\* text order, with the icons before the first em-dash and the trimmed text
\* after it; saga_text is the chapter lines joined by newlines.
C13_OneChapterPerChapterLine ==
    pc = "read" =>
        /\ view.saga_text = join(ChapterLines, <<NL>>)
        /\ view.saga_lines.exc = "none"
        /\ Len(view.saga_lines.val) = Len(ChapterLines)
        /\ \A i \in DOMAIN ChapterLines :
              view.saga_lines.val[i] =
                  [text |-> ChapterText(ChapterLines[i]), icons |-> Icons(ChapterLines[i])]

FirstLine == split(scryfall.text, <<NL>>)[1]

\* C14 as stated: under every configuration saga_description is the first
\* line of the oracle text when that line is no chapter line, else empty.
C14_DescriptionIsFirstLine ==
    pc = "read" =>
        view.saga_description = Ok(IF chapter_match(FirstLine) THEN <<>> ELSE FirstLine)

\* C14 amended: with CFG.remove_reminder off saga_description is the first
\* line of the oracle text when that line is no chapter line and the empty
\* string when it is; with CFG.remove_reminder on it is the empty string.
C14_DescriptionUnlessReminderRemoved ==
    pc = "read" =>
        view.saga_description =
            Ok(IF cfg.remove_reminder \/ chapter_match(FirstLine) THEN <<>> ELSE FirstLine)

\* C14 witness: reminder removal is on, the first line is no chapter line and
\* the description read is empty.
C14_Witness ==
    /\ pc = "read" /\ cfg.remove_reminder
    /\ FirstLine = LineRead /\ Len(ChapterLines) >= 1
    /\ view.saga_description = Ok(<<>>)

\* The lines after the first chapter line of the oracle text.
AfterFirstChapter ==
    LET at == {i \in DOMAIN TextLines : chapter_match(TextLines[i])}
    IN  IF at = {} THEN <<>>
        ELSE SubSeq(TextLines, (CHOOSE i \in at : \A j \in at : i <= j) + 1, Len(TextLines))

\* C19: ability_text is the lines after the first chapter line that are no
\* chapter lines, in order, and so holds no chapter line.
C19_AbilityTextAfterChapters ==
    pc = "read" =>
        view.ability_text = join(SelectSeq(AfterFirstChapter, LAMBDA x : ~chapter_match(x)), <<NL>>)

IsPrefix(a, b) == Len(a) <= Len(b) /\ SubSeq(b, 1, Len(a)) = a

\* C20: a line of the oracle text without em-dash that follows a chapter line
\* is appended after a newline to that chapter's text in saga_lines, and a
\* first line without em-dash is the first entry, with no icons.
C20_ContinuationAndHeading ==
    pc = "read" =>
        LET ls == split(scryfall.text, <<NL>>)
        IN  /\ view.saga_lines.exc = "none"
            /\ \A i \in DOMAIN ls :
                  (i > 1 /\ find(ls[i], <<EmDash>>) = 0 /\ chapter_match(ls[i - 1])) =>
                      \E k \in DOMAIN view.saga_lines.val :
                          /\ view.saga_lines.val[k].icons = Icons(ls[i - 1])
                          /\ IsPrefix(ChapterText(ls[i - 1]) \o <<NL>> \o ls[i],
                                      view.saga_lines.val[k].text)
            /\ find(ls[1], <<EmDash>>) = 0 =>
                  /\ view.saga_lines.val # <<>>
                  /\ view.saga_lines.val[1] = [text |-> ls[1], icons |-> <<>>]


(***************************************************************************)
(* LevelerLayout                                                           *)
(***************************************************************************)
LevelPrefix == <<"L", "E", "V", "E", "L", " ">>

\* \d*<mark>\d* and \d*<mark>: the level ranges and power/toughness lines.
AllDigits(s) == \A i \in DOMAIN s : isdigit(s[i])
IsNumberPair(s, mark) ==
    \E k \in DOMAIN s :
        s[k] = mark /\ AllDigits(SubSeq(s, 1, k - 1)) /\ AllDigits(SubSeq(s, k + 1, Len(s)))
IsNumberMark(s, mark) == s # <<>> /\ s[Len(s)] = mark /\ AllDigits(SubSeq(s, 1, Len(s) - 1))

IsLevelLine(line, bottom) ==
    /\ IsPrefix(LevelPrefix, line)
    /\ LET range == SubSeq(line, Len(LevelPrefix) + 1, Len(line))
       IN  IF bottom THEN IsNumberMark(range, "+") ELSE IsNumberPair(range, "-")

\* CardTextPatterns.LEVELER.match(text): the level-up text, then a middle
\* stage and a bottom stage, each a "LEVEL <range>" line, a power/toughness
\* line and the stage's text; seven captures, or no match.
LEVELER_match(text) ==
    LET ls == split(text, <<NL>>)
        stage(i, bottom) == /\ i + 1 <= Len(ls)
                            /\ IsLevelLine(ls[i], bottom)
                            /\ IsNumberPair(ls[i + 1], "/")
        mids == {i \in 2..Len(ls) : stage(i, FALSE) /\ \E j \in (i + 3)..(Len(ls) - 2) : stage(j, TRUE)}
    IN  IF mids = {} THEN None
        ELSE LET i == CHOOSE x \in mids : \A y \in mids : x <= y
                 bots == {j \in (i + 3)..(Len(ls) - 2) : stage(j, TRUE)}
                 j == CHOOSE x \in bots : \A y \in bots : x <= y
             IN  Some(<<join(SubSeq(ls, 1, i - 1), <<NL>>),
                        SubSeq(ls[i], Len(LevelPrefix) + 1, Len(ls[i])),
                        ls[i + 1],
                        join(SubSeq(ls, i + 2, j - 1), <<NL>>),
                        SubSeq(ls[j], Len(LevelPrefix) + 1, Len(ls[j])),
                        ls[j + 1],
                        join(SubSeq(ls, j + 2, Len(ls)), <<NL>>)>>)

\* LevelerLayout.leveler_match
leveler_match(l) == LEVELER_match(oracle_text(l))

\* leveler_match[n] if leveler_match else ''
leveler_group(l, n) == IF leveler_match(l).present THEN leveler_match(l).val[n] ELSE <<>>

\* Mutant of middle_text: the capture is returned as it is.
middle_text_as_captured(l) == leveler_group(l, 4)

\* LevelerLayout.middle_text
middle_text(l) ==
    IF leveler_match(l).present
    THEN IF leveler_match(l).val[4] = <<>> THEN <<" ">> ELSE leveler_match(l).val[4]
    ELSE <<>>

\* The seven text properties of LevelerLayout.
leveler_fields(l) ==
    [level_up_text |-> leveler_group(l, 1),
     middle_level |-> leveler_group(l, 2),
     middle_power_toughness |-> leveler_group(l, 3),
     middle_text |-> middle_text(l),
     bottom_level |-> leveler_group(l, 5),
     bottom_power_toughness |-> leveler_group(l, 6),
     bottom_text |-> leveler_group(l, 7)]

(***************************************************************************)
(* PlaneswalkerLayout                                                      *)
(***************************************************************************)
Minus == "minus"            \* the character U+2212

\* PlaneswalkerLayout.oracle_text_raw: replace("−", "-")
pw_oracle_text_raw(l) ==
    [i \in DOMAIN oracle_text(l) |-> IF oracle_text(l)[i] = Minus THEN "-" ELSE oracle_text(l)[i]]

\* CardTextPatterns.PLANESWALKER.findall(text): a line with a colon is an
\* entry of its own, consecutive lines without a colon are one entry.
RECURSIVE PLANESWALKER_group(_, _)
PLANESWALKER_group(ls, acc) ==
    IF ls = <<>> THEN acc
    ELSE IF find(Head(ls), <<":">>) # 0 \/ acc = <<>>
              \/ find(acc[Len(acc)], <<":">>) # 0
         THEN PLANESWALKER_group(Tail(ls), Append(acc, Head(ls)))
         ELSE PLANESWALKER_group(Tail(ls),
                                 [acc EXCEPT ![Len(acc)] = @ \o <<NL>> \o Head(ls)])

PLANESWALKER_findall(text) ==
    IF text = <<>> THEN <<>> ELSE PLANESWALKER_group(split(text, <<NL>>), <<>>)

NoChar == [present |-> FALSE, val |-> ""]

\* NormalLayout.lang: scryfall.get('lang', CFG.lang).upper(). A record or a
\* configuration without the field stands for English data and settings.
English == <<"E", "N">>
lang(l) ==
    IF "lang" \in DOMAIN l.scryfall /\ l.scryfall.lang.present THEN upper(l.scryfall.lang.val)
    ELSE IF "lang" \in DOMAIN cfg THEN upper(cfg.lang)
    ELSE English

\* NormalLayout.is_alt_lang
is_alt_lang(l) == lang(l) # English

\* 'printed_text' in self.card
has_printed_text(l) == "printed_text" \in DOMAIN l.scryfall /\ l.scryfall.printed_text.present

\* PlaneswalkerLayout.oracle_text
pw_oracle_text(l) ==
    IF is_alt_lang(l)
    THEN LET text == IF has_printed_text(l) THEN l.scryfall.printed_text.val
                     ELSE oracle_text(l)
         IN  [i \in DOMAIN text |-> IF text[i] = Minus THEN "-" ELSE text[i]]
    ELSE pw_oracle_text_raw(l)

\* str.count('\n') + 1
breaks_of(line) == Len(split(line, <<NL>>))

\* Mutant of pw_alt_lines: the English lines are kept whatever the
\* alternate text holds.
pw_alt_lines_english(lines, alt_lines) == lines

\* The loop that cuts the alternate language lines into one block per
\* English ability; it gives up and returns the English lines when the
\* alternate lines run out.
RECURSIVE pw_alt_loop(_, _, _, _)
pw_alt_loop(lines, rest, alt_lines, new_lines) ==
    IF rest = <<>> THEN new_lines
    ELSE IF alt_lines = <<>> \/ ~(Len(alt_lines) >= breaks_of(Head(rest))) THEN lines
    ELSE CHOOSE r \in
            {pw_alt_loop(lines, Tail(rest), SubSeq(alt_lines, b + 1, Len(alt_lines)),
                         Append(new_lines, join(SubSeq(alt_lines, 1, b), <<NL>>))) :
                b \in {breaks_of(Head(rest))}} : TRUE

pw_alt_lines(lines, alt_lines) == pw_alt_loop(lines, lines, alt_lines, <<>>)

\* One entry of pw_abilities: the text is cut from line at the index of ": "
\* in the English line, icon and cost come from the English line.
pw_ability(line, en_line) ==
    LET at == find(en_line, <<":", " ">>)
    IN  IF at - 1 > 0 /\ at - 1 < 5
        THEN [text |-> lstrip(SubSeq(line, at + 1, Len(line))),
              icon |-> [present |-> TRUE, val |-> en_line[1]],
              cost |-> Some(SubSeq(en_line, 1, at - 1))]
        ELSE [text |-> line, icon |-> NoChar, cost |-> None]

\* PlaneswalkerLayout.pw_abilities
pw_abilities(l) ==
    LET en_lines == PLANESWALKER_findall(pw_oracle_text_raw(l))
        lines == IF is_alt_lang(l) /\ has_printed_text(l)
                 THEN pw_alt_lines(en_lines, split(pw_oracle_text(l), <<NL>>))
                 ELSE en_lines
    IN  Ok([i \in DOMAIN lines |-> pw_ability(lines[i], en_lines[i])])

\* Inputs: leveler texts built stage by stage, planeswalker texts of up to
\* MaxLines lines, and short texts of other lines.
LineUp == <<"U", "p">>
LineLevelMid == LevelPrefix \o <<"2", "-", "6">>
LineLevelBot == LevelPrefix \o <<"7", "+">>
LinePT == <<"3", "/", "4">>

LevelerTexts ==
    {join(<<LineUp, l2, l3>> \o mid \o <<l5, LinePT>> \o bot, <<NL>>) :
        l2 \in {LineLevelMid, LineFly}, l3 \in {LinePT, LineFly},
        mid \in {<<LineFly>>, <<<<>>>>, <<LineFly, LineFly>>, <<>>},
        l5 \in {LineLevelBot, LineLevelMid},
        bot \in {<<LineFly>>, <<<<>>>>, <<>>}}

LinePlus == <<"+", "1", ":", " ", "D">>
LineMinus == <<Minus, "2", ":", " ", " ", "x">>
LineLongCost == <<"a", "b", "c", "d", "e", ":", " ", "x">>
PlaneswalkerLinePool == {LinePlus, LineMinus, LineLongCost, LineFly, <<>>}

ReadLeveler ==
    /\ pc = "assigned"
    /\ result.kind = "layout" /\ result.cls = "LevelerLayout"
    /\ view' = [fields |-> leveler_fields(result)]
    /\ pc' = "read"
    /\ UNCHANGED <<cfg, con, file, scryfall, result, layouts, joined>>

ReadPlaneswalker ==
    /\ pc = "assigned"
    /\ result.kind = "layout" /\ result.cls = "PlaneswalkerLayout"
    /\ view' = [pw_abilities |-> pw_abilities(result)]
    /\ pc' = "read"
    /\ UNCHANGED <<cfg, con, file, scryfall, result, layouts, joined>>

NextText == AssignLayout \/ ReadLeveler \/ ReadPlaneswalker

InitText ==
    /\ cfg \in [collector_mode : {"Normal"}, test_mode : BOOLEAN]
    /\ con = NoSetData
    /\ file = ArtFile("f1", Fire)
    /\ \E fe \in BOOLEAN :
         \/ \E text \in LevelerTexts \cup Texts({LineUp, LineLevelMid, LinePT}, MaxLines) :
              scryfall = [TextRecord("leveler", text) EXCEPT !.frame_error = fe]
         \/ \E text \in Texts(PlaneswalkerLinePool, MaxLines) :
              scryfall = [TextRecord("planeswalker", text) EXCEPT !.frame_error = fe]
    /\ result = Unused /\ view = Unused /\ layouts = Unused /\ joined = Unused
    /\ pc = "start"

SpecText == InitText /\ [][NextText]_vars

(***************************************************************************)
(* Leveler and Planeswalker claims (SpecText).                             *)
(***************************************************************************)
Captures == LEVELER_match(scryfall.text)

NoLevelerFields ==
    [level_up_text |-> <<>>, middle_level |-> <<>>, middle_power_toughness |-> <<>>,
     middle_text |-> <<>>, bottom_level |-> <<>>, bottom_power_toughness |-> <<>>,
     bottom_text |-> <<>>]

\* C15: when the oracle text matches the leveler pattern the seven fields are
\* the seven captures in order, an empty middle text being a single space;
\* when it does not match, all seven fields are the empty string.
C15_LevelerFields ==
    (pc = "read" /\ result.cls = "LevelerLayout") =>
        IF Captures.present
        THEN view.fields =
                [level_up_text |-> Captures.val[1],
                 middle_level |-> Captures.val[2],
                 middle_power_toughness |-> Captures.val[3],
                 middle_text |-> IF Captures.val[4] = <<>> THEN <<" ">> ELSE Captures.val[4],
                 bottom_level |-> Captures.val[5],
                 bottom_power_toughness |-> Captures.val[6],
                 bottom_text |-> Captures.val[7]]
        ELSE view.fields = NoLevelerFields

\* C15 witness: a leveler text with an empty middle stage was read: ranges
\* 2-6 and 7+, middle text a single space, bottom text the last line.
C15_Witness ==
    /\ pc = "read" /\ result.cls = "LevelerLayout"
    /\ Captures.present /\ Captures.val[4] = <<>>
    /\ view.fields.middle_level = <<"2", "-", "6">>
    /\ view.fields.middle_power_toughness = LinePT
    /\ view.fields.middle_text = <<" ">>
    /\ view.fields.bottom_level = <<"7", "+">>
    /\ view.fields.bottom_text = LineFly

\* The record is a Planeswalker whose text yields no ability, or a Leveler
\* whose text does not match the leveler pattern.
NothingParsed ==
    \/ Tag = "planeswalker" /\ PLANESWALKER_findall(scryfall.text) = <<>>
    \/ Tag = "leveler" /\ ~Captures.present

\* C17 as stated: such a record is never returned as an instance; its
\* classification ends in LayoutConstructionFailed.
C17_NothingParsedEscalates ==
    (Assigned /\ NothingParsed) => IsError(result, "Layout generation failed")

\* C17 amended: such a record is not escalated: whenever the constructor's
\* own reads succeed it is returned as a layout instance, and reading it
\* raises nothing: the ability list is empty, the seven leveler fields are
\* empty strings.
C17_NothingParsedIsReturned ==
    /\ (Assigned /\ NothingParsed) =>
          IF ConstructorFails THEN IsError(result, "Layout generation failed")
          ELSE result.kind = "layout"
    /\ (pc = "read" /\ NothingParsed) =>
          IF Tag = "planeswalker" THEN view.pw_abilities = Ok(<<>>)
          ELSE view.fields = NoLevelerFields

\* C17 witness: a Planeswalker instance without abilities was returned and
\* its abilities were read.
C17_Witness ==
    /\ pc = "read" /\ result.cls = "PlaneswalkerLayout"
    /\ scryfall.text = <<>>
    /\ view.pw_abilities = Ok(<<>>)


(***************************************************************************)
(* Rarity: every raw rarity, the special and bonus tiers included.         *)
(***************************************************************************)
Rarity_S == <<"s", "p", "e", "c", "i", "a", "l">>
Rarity_B == <<"b", "o", "n", "u", "s">>
StandardRarities == {Rarity_C, Rarity_U, Rarity_R, Rarity_M, Rarity_T}

ReadRarity ==
    /\ pc = "assigned"
    /\ result.kind = "layout"
    /\ view' = [rarity |-> rarity(result),
                rarity_letter |-> rarity_letter(result),
                collector_data |-> collector_data(result)]
    /\ pc' = "read"
    /\ UNCHANGED <<cfg, con, file, scryfall, result, layouts, joined>>

NextRarity == AssignLayout \/ ReadRarity

InitRarity ==
    /\ cfg \in [collector_mode : CollectorModes, test_mode : BOOLEAN]
    /\ con = NoSetData
    /\ file = ArtFile("f1", Fire)
    /\ \E tag \in {"normal", "token"},
          rar \in {None} \cup {Some(r) : r \in StandardRarities \cup {Rarity_S, Rarity_B}},
          as \in {Rarity_M, Rarity_R, Rarity_T},
          number \in {None, Some(<<"7">>)} :
         scryfall = [special_as |-> as]
                       @@ Record(Some(tag), "absent", NoFaces, FALSE, number, rar, "one_line")
    /\ result = Unused /\ view = Unused /\ layouts = Unused /\ joined = Unused
    /\ pc = "start"

SpecRarity == InitRarity /\ [][NextRarity]_vars

\* The rarity as interpreted: a standard rarity stands for itself, an absent
\* one is common, any other tier is re-interpreted from the card data.
Interpreted ==
    IF ~scryfall.rarity.present THEN Rarity_C
    ELSE IF scryfall.rarity.val \in StandardRarities THEN scryfall.rarity.val
    ELSE scryfall.special_as

\* C16: rarity_letter is one uppercase character, the first character of the
\* interpreted rarity, for every raw rarity including special and bonus.
C16_LetterOfInterpretedRarity ==
    pc = "read" =>
        /\ view.rarity = Interpreted
        /\ view.rarity_letter.exc = "none"
        /\ Len(view.rarity_letter.val) = 1
        /\ \E i \in DOMAIN UpperAlpha :
              /\ view.rarity_letter.val[1] = UpperAlpha[i]
              /\ Interpreted[1] = LowerAlpha[i]

\* C16 witness: a card of raw rarity "special" that its data re-interprets as
\* timeshifted was read and its letter is T.
C16_Witness ==
    /\ pc = "read" /\ result.cls = "NormalLayout"
    /\ scryfall.rarity = Some(Rarity_S) /\ scryfall.special_as = Rarity_T
    /\ view.rarity_letter = Ok(<<"T">>)


(***************************************************************************)
(* Merge key claim (Spec).                                                 *)
(***************************************************************************)
\* Name, set code and raw collector number of a Split instance.
ExactKey(x) == <<display_name(x).val, set_code(x), collector_number_raw(x)>>

\* C18: Split instances are merged only when name, set code and collector
\* number match exactly: in a batch whose Split instances differ pairwise in
\* one of the three (a non-digit suffix of the raw collector number counts)
\* no two are taken for a pair, so the merge returns each of them once with
\* its art file unchanged.
C18_MergedOnlyOnExactMatch ==
    (/\ JoinedOnce
     /\ \A i \in SplitsOf(layouts) : HasKey(layouts[i])
     /\ \A i \in SplitsOf(layouts), j \in SplitsOf(layouts) :
           i # j => ExactKey(layouts[i]) # ExactKey(layouts[j]))
    => /\ joined[1].kind = "list"
       /\ \A i \in SplitsOf(layouts) :
             /\ Cardinality(EntriesOf(joined[1], layouts[i])) = 1
             /\ \A m \in EntriesOf(joined[1], layouts[i]) :
                   joined[1].items[m].art_file = PathValue(layouts[i].file.file)


(***************************************************************************)
(* ClassLayout                                                             *)
(***************************************************************************)
\* CardTextPatterns.CLASS.match(pair): "<cost>: Level <digit>" on the first
\* line, a non-empty second line. The captures are cost, level and text.
LevelMark == <<":", " ", "L", "e", "v", "e", "l", " ">>

CLASS_match(pair) ==
    LET parts == split(pair, <<NL>>)
        at == find(parts[1], LevelMark)
    IN  IF /\ Len(parts) = 2
           /\ at > 1
           /\ Len(parts[1]) = at + Len(LevelMark)
           /\ isdigit(parts[1][Len(parts[1])])
           /\ parts[2] # <<>>
        THEN Some(<<SubSeq(parts[1], 1, at - 1), <<parts[1][Len(parts[1])]>>, parts[2]>>)
        ELSE None

\* ClassLayout.class_text
class_text(l) ==
    IF cfg.remove_reminder THEN oracle_text(l) ELSE strip_lines(oracle_text(l), 1)

\* ClassLayout.class_description
class_description(l) ==
    IF cfg.remove_reminder THEN Ok(<<>>) ELSE get_line(oracle_text(l), 0)

\* Mutant of class_pairs: every line is taken on its own.
class_pairs_by_line(lines) == lines

\* ["\n".join(lines[i:i + 2]) for i in range(0, len(lines), 2)]
class_pairs(lines) ==
    [k \in 1..((Len(lines) + 1) \div 2) |->
        join(SubSeq(lines, 2 * k - 1, IF 2 * k <= Len(lines) THEN 2 * k ELSE Len(lines)),
             <<NL>>)]

\* One pass of the loop of class_lines.
class_lines_step(abilities, line) ==
    LET details == CLASS_match(line)
    IN  IF details.present
        THEN Append(abilities, [cost |-> Some(details.val[1]),
                                level |-> [type |-> "str", val |-> details.val[2]],
                                text |-> details.val[3]])
        ELSE [abilities EXCEPT ![Len(abilities)].text = @ \o <<NL>> \o line]

RECURSIVE class_lines_loop(_, _)
class_lines_loop(abilities, pairs) ==
    IF pairs = <<>> THEN abilities
    ELSE CHOOSE r \in
            {class_lines_loop(nxt, Tail(pairs)) :
                nxt \in {class_lines_step(abilities, Head(pairs))}} : TRUE

\* ClassLayout.class_lines
class_lines(l) ==
    LET all == split(class_text(l), <<NL>>)
    IN  class_lines_loop(<<[text |-> Head(all), cost |-> None,
                            level |-> [type |-> "int", val |-> 1]]>>,
                         class_pairs(Tail(all)))

\* Inputs: class texts of up to MaxClassLines lines.
MaxClassLines == 5

LineClass2 == <<"W">> \o LevelMark \o <<"2">>
LineClassNoCost == LevelMark \o <<"3">>
ClassLinePool == {LineFly, LineClass2, LineClassNoCost, <<>>}

ReadClass ==
    /\ pc = "assigned"
    /\ result.kind = "layout" /\ result.cls = "ClassLayout"
    /\ view' = [class_text |-> class_text(result),
                class_description |-> class_description(result),
                class_lines |-> class_lines(result)]
    /\ pc' = "read"
    /\ UNCHANGED <<cfg, con, file, scryfall, result, layouts, joined>>

NextClass == AssignLayout \/ ReadClass

InitClass ==
    /\ cfg \in [collector_mode : {"Normal"}, test_mode : {FALSE}, remove_reminder : BOOLEAN]
    /\ con = NoSetData
    /\ file = ArtFile("f1", Fire)
    /\ \E text \in Texts(ClassLinePool, MaxClassLines) : scryfall = TextRecord("class", text)
    /\ result = Unused /\ view = Unused /\ layouts = Unused /\ joined = Unused
    /\ pc = "start"

SpecClass == InitClass /\ [][NextClass]_vars

(***************************************************************************)
(* Class claims (SpecClass).                                               *)
(***************************************************************************)
ClassRead == pc = "read" /\ "class_lines" \in DOMAIN view

\* The lines of the class text after its first line, numbered from 1, and
\* pair k of them: lines 2k-1 and 2k, or line 2k-1 alone when it is the last.
RestLines == Tail(split(view.class_text, <<NL>>))
NumPairs == (Len(RestLines) + 1) \div 2
PairAt(k) ==
    IF 2 * k <= Len(RestLines)
    THEN RestLines[2 * k - 1] \o <<NL>> \o RestLines[2 * k]
    ELSE RestLines[2 * k - 1]
Matching == {k \in 1..NumPairs : CLASS_match(PairAt(k)).present}

\* The pair that starts level j (0 for level 1), and the non-matching pairs
\* that follow it up to the next matching pair.
StartOf(j) ==
    IF j = 1 THEN 0
    ELSE CHOOSE k \in Matching : Cardinality({m \in Matching : m <= k}) = j - 1
RECURSIVE Appended(_, _)
Appended(text, k) ==
    IF k > NumPairs \/ k \in Matching THEN text
    ELSE Appended(text \o <<NL>> \o PairAt(k), k + 1)

\* C21: class_lines begins with a level-1 ability without cost whose text
\* starts as the first line of the class text; the remaining lines are taken
\* in consecutive pairs, every matching pair adds one level with the pair's
\* cost, level and text, every other pair is appended after a newline to the
\* text of the most recent level, and there are 1 + (matching pairs) levels.
C21_ClassLevels ==
    ClassRead =>
        LET levels == view.class_lines
        IN  /\ Len(levels) = 1 + Cardinality(Matching)
            /\ levels[1].cost = None
            /\ levels[1].level = [type |-> "int", val |-> 1]
            /\ levels[1].text = Appended(Head(split(view.class_text, <<NL>>)), 1)
            /\ \A j \in 2..Len(levels) :
                  LET d == CLASS_match(PairAt(StartOf(j))).val
                  IN  /\ levels[j].cost = Some(d[1])
                      /\ levels[j].level = [type |-> "str", val |-> d[2]]
                      /\ levels[j].text = Appended(d[3], StartOf(j) + 1)

\* A text with a matching pair, a non-matching pair after it and a
\* non-matching pair before it.
C21_Witness ==
    /\ ClassRead
    /\ Len(view.class_lines) = 2
    /\ NumPairs >= 2
    /\ \E k \in 1..NumPairs : k \notin Matching /\ k > StartOf(2)

(***************************************************************************)
(* StationLayout                                                           *)
(***************************************************************************)
StationMark == <<"S", "T", "A", "T", "I", "O", "N", " ">>

\* StationLayout.oracle_text_unprocessed (English data)
oracle_text_unprocessed(l) == l.scryfall.text

\* oracle_text_unprocessed.index("\nSTATION "), from 1; 0 stands for the
\* ValueError of str.index.
stations_start(l) == find(oracle_text_unprocessed(l), <<NL>> \o StationMark)

\* StationLayout.oracle_text
station_oracle_text(l) ==
    IF stations_start(l) = 0 THEN RaiseStr("ValueError")
    ELSE Ok(SubSeq(oracle_text_unprocessed(l), 1, stations_start(l) - 1))

\* StationLayout._pt_pattern.match(line): digits, "/", digits at the start of
\* the line; the captures are the two longest runs of digits.
RECURSIVE leading_digits(_)
leading_digits(s) ==
    IF s # <<>> /\ isdigit(Head(s)) THEN <<Head(s)>> \o leading_digits(Tail(s)) ELSE <<>>

pt_pattern_match(line) ==
    LET power == leading_digits(line)
        rest == SubSeq(line, Len(power) + 1, Len(line))
        toughness == IF rest = <<>> THEN <<>> ELSE leading_digits(Tail(rest))
    IN  IF power # <<>> /\ rest # <<>> /\ Head(rest) = "/" /\ toughness # <<>>
        THEN Some([power |-> power, toughness |-> toughness])
        ELSE None

NoPT == [present |-> FALSE, val |-> [power |-> <<>>, toughness |-> <<>>]]

\* Mutant of station_ability: only the end of the ability is trimmed.
station_ability_rstrip(ability) == rstrip(ability)

\* details["ability"] = details["ability"].strip()
station_ability(ability) == strip(ability)

\* The loop over the lines of one block after its first line.
RECURSIVE station_lines_loop(_, _)
station_lines_loop(details, lines) ==
    IF lines = <<>> THEN details
    ELSE CHOOSE r \in
            {station_lines_loop(nxt, Tail(lines)) :
                nxt \in {IF pt_pattern_match(Head(lines)).present
                         THEN [details EXCEPT !.pt = pt_pattern_match(Head(lines))]
                         ELSE [details EXCEPT !.ability = @ \o Head(lines) \o <<NL>>]}} : TRUE

\* The StationDetails of one non-empty stripped block.
station_details(stripped) ==
    LET lines == split(stripped, <<NL>>)
        details == station_lines_loop([requirement |-> Head(lines), ability |-> <<>>,
                                       pt |-> NoPT], Tail(lines))
    IN  [details EXCEPT !.ability = station_ability(@)]

RECURSIVE stations_loop(_, _)
stations_loop(out, splits) ==
    IF splits = <<>> THEN out
    ELSE CHOOSE r \in
            {stations_loop(nxt, Tail(splits)) :
                nxt \in {IF strip(Head(splits)) # <<>>
                         THEN Append(out, station_details(strip(Head(splits))))
                         ELSE out}} : TRUE

\* StationLayout.stations
stations(l) ==
    IF stations_start(l) = 0 THEN [exc |-> "ValueError", val |-> <<>>]
    ELSE Ok(stations_loop(<<>>,
                          split(SubSeq(oracle_text_unprocessed(l), stations_start(l),
                                       Len(oracle_text_unprocessed(l))), StationMark)))

\* Inputs: station texts of up to MaxStationLines lines.
MaxStationLines == 5

LineStation == StationMark \o <<"7", "+">>
LineStationInline == <<"x", " ">> \o StationMark \o <<"9">>
LinePTMore == <<"1", "0", "/", "2", " ", "x">>
LineIndented == <<" ", "F", "l", "y", " ">>
StationLinePool == {LineFly, LineStation, LineStationInline, LinePT, LinePTMore,
                    LineIndented}

ReadStation ==
    /\ pc = "assigned"
    /\ result.kind = "layout" /\ result.cls = "StationLayout"
    /\ view' = [oracle_text |-> station_oracle_text(result),
                stations |-> stations(result)]
    /\ pc' = "read"
    /\ UNCHANGED <<cfg, con, file, scryfall, result, layouts, joined>>

NextStation == AssignLayout \/ ReadStation

InitStation ==
    /\ cfg \in [collector_mode : {"Normal"}, test_mode : {FALSE}]
    /\ con = NoSetData
    /\ file = ArtFile("f1", Fire)
    /\ \E text \in Texts(StationLinePool, MaxStationLines) :
         scryfall = TextRecord("station", text)
    /\ result = Unused /\ view = Unused /\ layouts = Unused /\ joined = Unused
    /\ pc = "start"

SpecStation == InitStation /\ [][NextStation]_vars

(***************************************************************************)
(* Station claims (SpecStation).                                           *)
(***************************************************************************)
StationRead == pc = "read" /\ "stations" \in DOMAIN view

\* The text from its first "\nSTATION " on, cut at every "STATION ", and the
\* pieces of it that are not blank, trimmed.
HasStationMarker == find(scryfall.text, <<NL>> \o StationMark) # 0
AfterMarker ==
    SubSeq(scryfall.text, find(scryfall.text, <<NL>> \o StationMark), Len(scryfall.text))
Blocks ==
    LET pieces == split(AfterMarker, StationMark)
        trimmed == [i \in DOMAIN pieces |-> strip(pieces[i])]
    IN  SelectSeq(trimmed, LAMBDA b : b # <<>>)
IsPT(line) ==
    \E i \in 1..Len(line), j \in 1..Len(line) :
        /\ 1 <= i - 1 /\ i < j
        /\ \A k \in (1..(i - 1)) \cup ((i + 1)..j) : isdigit(line[k])
        /\ line[i] = "/"
Following(block) == Tail(split(block, <<NL>>))
PTLines(block) == SelectSeq(Following(block), IsPT)
AbilityLines(block) == SelectSeq(Following(block), LAMBDA line : ~IsPT(line))

\* The parts of C22 that do not depend on how the ability is trimmed: the
\* oracle text is the text before the first marker, there is one level per
\* non-blank block, in order, its requirement is the block's first line and
\* its power/toughness is there exactly when a following line matches.
StationShape(trim(_)) ==
    (StationRead /\ HasStationMarker) =>
        /\ view.oracle_text.exc = "none" /\ view.stations.exc = "none"
        /\ view.oracle_text.val \o AfterMarker = scryfall.text
        /\ find(view.oracle_text.val, <<NL>> \o StationMark) = 0
        /\ Len(view.stations.val) = Len(Blocks)
        /\ \A i \in DOMAIN Blocks :
              LET level == view.stations.val[i]
              IN  /\ level.requirement = Head(split(Blocks[i], <<NL>>))
                  /\ level.pt.present = (PTLines(Blocks[i]) # <<>>)
                  /\ level.pt.present =>
                        \E n \in DOMAIN PTLines(Blocks[i]) :
                            IsPrefix(level.pt.val.power \o <<"/">> \o level.pt.val.toughness,
                                     PTLines(Blocks[i])[n])
                  /\ level.ability = trim(join(AbilityLines(Blocks[i]), <<NL>>))

\* C22: station decomposition, the ability being the non-matching lines
\* joined by newlines with trailing whitespace removed.
C22_StationLevels == StationShape(rstrip)

\* C22, amended: the ability is the non-matching lines joined by newlines
\* with the whitespace at both of its ends removed.
C22_StationLevelsTrimmed == StationShape(strip)

\* A level with a requirement, a power/toughness line and an ability that
\* starts with whitespace before trimming.
C22_Witness ==
    /\ StationRead /\ HasStationMarker
    /\ \E i \in DOMAIN Blocks :
          /\ PTLines(Blocks[i]) # <<>>
          /\ AbilityLines(Blocks[i]) # <<>>
          /\ Head(AbilityLines(Blocks[i])) = LineIndented
          /\ view.stations.val[i].ability = LineFly

(***************************************************************************)
(* Planeswalker abilities in an alternate language.                        *)
(***************************************************************************)
MaxAltLines == 4

French == <<"f", "r">>
LineAltPlus == <<"+", "1", ":", " ", "P">>
LineVol == <<"V", "o", "l">>
AltLinePool == {LineAltPlus, LineVol}

InitPlaneswalker ==
    /\ cfg \in [collector_mode : {"Normal"}, test_mode : {FALSE}, lang : {<<"e", "n">>, French}]
    /\ con = NoSetData
    /\ file = ArtFile("f1", Fire)
    /\ \E text \in Texts({LinePlus, LineMinus, LineFly}, MaxLines),
          printed \in {None} \cup {Some(t) : t \in Texts(AltLinePool, MaxAltLines)},
          lg \in {None, Some(French)} :
         scryfall = [lang |-> lg, printed_text |-> printed] @@ TextRecord("planeswalker", text)
    /\ result = Unused /\ view = Unused /\ layouts = Unused /\ joined = Unused
    /\ pc = "start"

NextPlaneswalker == AssignLayout \/ ReadPlaneswalker

SpecPlaneswalker == InitPlaneswalker /\ [][NextPlaneswalker]_vars

(***************************************************************************)
(* Planeswalker claims (SpecPlaneswalker).                                 *)
(***************************************************************************)
PwRead == pc = "read" /\ "pw_abilities" \in DOMAIN view

\* The abilities found in the English text and the lines of the alternate
\* text, when the card is read in another language and has such a text.
EnglishAbilities ==
    PLANESWALKER_findall([i \in DOMAIN scryfall.text |->
                            IF scryfall.text[i] = Minus THEN "-" ELSE scryfall.text[i]])
AltPresent ==
    /\ scryfall.printed_text.present
    /\ (IF scryfall.lang.present THEN scryfall.lang.val ELSE cfg.lang) = French
AltLines == split(scryfall.printed_text.val, <<NL>>)
LineCount(ability) == Len(split(ability, <<NL>>))
RECURSIVE TotalLines(_)
TotalLines(abilities) ==
    IF abilities = <<>> THEN 0 ELSE LineCount(Head(abilities)) + TotalLines(Tail(abilities))
BlockOf(i) ==
    LET before == TotalLines(SubSeq(EnglishAbilities, 1, i - 1))
    IN  join(SubSeq(AltLines, before + 1, before + LineCount(EnglishAbilities[i])), <<NL>>)

\* C23: one ability per English ability, in order, icon and cost from the
\* English line; with an alternate text whose line count matches the English
\* total, the text of ability i comes from its block of alternate lines; with
\* an alternate text whose line count does not match, or without one, the
\* text of every ability comes from the English line; no error is raised.
C23_AlternateLanguageAbilities ==
    PwRead =>
        /\ view.pw_abilities.exc = "none"
        /\ Len(view.pw_abilities.val) = Len(EnglishAbilities)
        /\ \A i \in DOMAIN EnglishAbilities :
              LET source == IF AltPresent /\ Len(AltLines) = TotalLines(EnglishAbilities)
                            THEN BlockOf(i) ELSE EnglishAbilities[i]
              IN  view.pw_abilities.val[i] = pw_ability(source, EnglishAbilities[i])

(***************************************************************************)
(* SplitLayout rules text (English data).                                  *)
(***************************************************************************)
\* NormalLayout.keywords: scryfall.get('keywords', [])
keywords(l) == IF "keywords" \in DOMAIN l.scryfall THEN l.scryfall.keywords ELSE {}

\* CardTextPatterns.TEXT_REMINDER_ENDING.match(text): the text ends with a
\* parenthesised reminder, which is the capture.
TEXT_REMINDER_ENDING_match(text) ==
    LET opens == {i \in DOMAIN text : text[i] = "("}
    IN  IF text # <<>> /\ text[Len(text)] = ")" /\ opens # {}
        THEN Some(SubSeq(text, CHOOSE i \in opens : \A j \in opens : j <= i, Len(text)))
        ELSE None

\* The texts both oracle_texts and shared_reminder go through.
face_texts(l) == [i \in DOMAIN cards(l) |-> cards(l)[i].text]

\* SplitLayout.shared_reminder
RECURSIVE shared_reminder_loop(_, _)
shared_reminder_loop(prev_match, texts) ==
    IF texts = <<>> THEN prev_match
    ELSE LET match == TEXT_REMINDER_ENDING_match(Head(texts))
         IN  IF ~match.present \/ (prev_match # <<>> /\ prev_match # match.val) THEN <<>>
             ELSE shared_reminder_loop(match.val, Tail(texts))

shared_reminder(l) == shared_reminder_loop(<<>>, face_texts(l))

\* t[0:-len(self.shared_reminder)]
drop_last(t, n) == IF n >= Len(t) THEN <<>> ELSE SubSeq(t, 1, Len(t) - n)

\* SplitLayout.oracle_texts
oracle_texts(l) ==
    [i \in DOMAIN face_texts(l) |->
        LET t == face_texts(l)[i]
        IN  IF "Fuse" \in keywords(l)
            THEN LET parts == split(t, <<NL>>)
                 IN  join(SubSeq(parts, 1, Len(parts) - 1), <<>>)
            ELSE IF shared_reminder(l) # <<>>
            THEN rstrip(drop_last(t, Len(shared_reminder(l))))
            ELSE t]

\* Inputs: split records whose halves have texts of up to MaxLines lines.
LineFuse == <<"F", "u", "s", "e", " ", "(", "r", ")">>
LineReminded == <<"a", " ", "(", "r", ")">>
HalfTexts == Texts({LineFly, LineFuse, LineReminded}, MaxLines)

ReadSplitText ==
    /\ pc = "assigned"
    /\ result.kind = "layout" /\ result.cls = "SplitLayout"
    /\ view' = [oracle_texts |-> oracle_texts(result),
                shared_reminder |-> shared_reminder(result)]
    /\ pc' = "read"
    /\ UNCHANGED <<cfg, con, file, scryfall, result, layouts, joined>>

NextSplitText == AssignLayout \/ ReadSplitText

InitSplitText ==
    /\ cfg \in [collector_mode : {"Normal"}, test_mode : {FALSE}]
    /\ con = NoSetData
    /\ file = ArtFile("f1", Fire)
    /\ \E t1 \in HalfTexts, t2 \in HalfTexts, ks \in {{}, {"Fuse"}} :
         scryfall = [keywords |-> ks] @@
                    SplitRecord(Some(<<[name |-> Fire, text |-> t1],
                                       [name |-> Ice, text |-> t2]>>), Some(<<"7">>))
    /\ result = Unused /\ view = Unused /\ layouts = Unused /\ joined = Unused
    /\ pc = "start"

SpecSplitText == InitSplitText /\ [][NextSplitText]_vars

(***************************************************************************)
(* Split text claims (SpecSplitText).                                      *)
(***************************************************************************)
SplitTextRead == pc = "read" /\ "oracle_texts" \in DOMAIN view
HalfText(i) == scryfall.card_faces.val[i].text
HalfLines(i) == split(HalfText(i), <<NL>>)

\* C24: with the Fuse keyword each half's oracle text is the half's original
\* text without its final line, the earlier lines and the line breaks
\* between them kept, and no shared reminder is cut off.
C24_FuseDropsFinalLine ==
    (SplitTextRead /\ "Fuse" \in scryfall.keywords) =>
        /\ Len(view.oracle_texts) = 2
        /\ \A i \in 1..2 :
              view.oracle_texts[i] =
                  join(SubSeq(HalfLines(i), 1, Len(HalfLines(i)) - 1), <<NL>>)

(***************************************************************************)
(* Watermark key resolution (SpecWatermark).                               *)
(***************************************************************************)
\* What a key must resolve to, from the record's own fields: the asset and
\* the one asset function call that produced it.
CurrentCode == upper(scryfall.set.val)
FirstPrintCode ==
    IF scryfall.first_print.present THEN scryfall.first_print.val ELSE CurrentCode
ResolutionOf(key) ==
    IF ~key.present \/ key.val = <<>> THEN [path |-> None, calls |-> <<>>]
    ELSE IF lower(key.val) = KeySet
    THEN [path |-> get_watermark_svg_from_set(FirstPrintCode),
          calls |-> <<[fn |-> "get_watermark_svg_from_set", arg |-> FirstPrintCode]>>]
    ELSE IF lower(key.val) = KeySymbol
    THEN [path |-> get_watermark_svg_from_set(CurrentCode),
          calls |-> <<[fn |-> "get_watermark_svg_from_set", arg |-> CurrentCode]>>]
    ELSE [path |-> get_watermark_svg(lower(key.val)),
          calls |-> <<[fn |-> "get_watermark_svg", arg |-> lower(key.val)]>>]

\* C25: every key that is looked up, the face's own or the configured
\* default, resolves alike: "set" to the asset of the set code of the first
\* printing (of the current set when no first printing is known),
\* "symbol" to the asset of the instance's current set code, any other
\* non-empty key by direct lookup of the key, and an absent or empty key to
\* none without any call to the asset functions.
C25_KeyResolution ==
    (pc = "read" /\ "resolved" \in DOMAIN view) =>
        \A i \in DOMAIN view.lookups :
            \A n \in DOMAIN view.lookups[i] :
                view.resolved[i][n] = ResolutionOf(view.lookups[i][n])

\* C25 witness: mode Fallback, the face's own key is "symbol" and the current
\* set has no asset, the default key is "set" and the first printing's set
\* has one: both sentinels were resolved, to different sets.
C25_Witness ==
    /\ pc = "read" /\ cfg.watermark_mode = "Fallback"
    /\ scryfall.first_print = Some(Dmr) /\ scryfall.set = Some(Lea)
    /\ view.lookups[1] = <<Some(KeySymbol), Some(KeySet)>>
    /\ view.resolved[1][1] = [path |-> None,
                              calls |-> <<[fn |-> "get_watermark_svg_from_set",
                                           arg |-> upper(Lea)]>>]
    /\ view.resolved[1][2].path = Some([dir |-> "set", key |-> upper(Dmr)])

(***************************************************************************)
(* Token claims (SpecCollector).                                           *)
(***************************************************************************)
TokenRead == pc = "read" /\ result.cls = "TokenLayout"

\* A collector line that carries the letter T and no other letter: digits,
\* a slash, digits, a space and T, or T, a space and digits.
LineWithT(line) ==
    /\ \A i \in DOMAIN line : isdigit(line[i]) \/ line[i] \in {"/", " ", "T"}
    /\ Cardinality({i \in DOMAIN line : line[i] = "T"}) = 1
    /\ \/ line[1] = "T" /\ line[2] = " "
       \/ line[Len(line)] = "T" /\ line[Len(line) - 1] = " " /\ \E i \in DOMAIN line : line[i] = "/"

C27_TokenTagIsDistinct ==
    (pc = "read" /\ Tag \in {t \in DOMAIN layout_map : layout_map[t] = "TokenLayout"}) =>
        /\ view.card_class = "Token"
        /\ view.card_class # "Normal"

(***************************************************************************)
(* Order of the batch (Spec).                                              *)
(***************************************************************************)
\* The orders the instances of the batch can complete in.
Perms(n) == {p \in [1..n -> 1..n] : \A i \in 1..n, j \in 1..n : p[i] = p[j] => i = j}
Permuted(p) == [i \in DOMAIN layouts |-> layouts[p[i]]]

\* An entry of a returned list: the display string and the art files of an
\* instance, the message of an error string.
EntryOf(x) ==
    IF x.kind = "layout" THEN [key |-> str_layout(x), art |-> x.art_file.items]
    ELSE [key |-> x, art |-> <<>>]
CountIn(items, e) == Cardinality({m \in DOMAIN items : EntryOf(items[m]) = e})
SameEntries(a, b) ==
    /\ Len(a) = Len(b)
    /\ \A m \in DOMAIN a : CountIn(a, EntryOf(a[m])) = CountIn(b, EntryOf(a[m]))

\* C28: the merge of the batch in any order of its instances returns a list
\* that holds the same entries (display string, ordered art files), each as
\* many times.
C28_OrderIndependent ==
    JoinedOnce =>
        \A p \in Perms(Len(layouts)) :
            LET out == join_dual_card_layouts(Permuted(p))
            IN  /\ joined[1].kind = "list"
                /\ out.kind = "list"
                /\ SameEntries(out.items, joined[1].items)

(***************************************************************************)
(* The art files the Split template loads (Spec).                          *)
(***************************************************************************)
\* SplitLayout.art_files: [Path(self.file['file'])], cached on first read;
\* join_dual_card_layouts assigns art_file and never this list.
art_files(l) == <<l.file.file>>

\* SplitMod.load_artworks with no art_files argument: the second art is
\* asked for when the layout's list has one entry.
selects_second_art(l) == Len(art_files(l)) = 1

\* C29: after the merge of two Split instances with one display string the
\* merged instance's art_files has two entries and rendering it does not ask
\* for the second art; a Split instance that shares its display string with
\* no other is returned unmerged and rendering it asks.
C29_MergedLoadsTwoArtFiles ==
    JoinedOnce =>
        \A i \in SplitsOf(layouts) :
            IF \E j \in SplitsOf(layouts) \ {i} : SameKey(layouts[i], layouts[j])
            THEN /\ joined[1].kind = "list"
                 /\ \A m \in DOMAIN joined[1].items :
                       (IsSplit(joined[1].items[m]) /\ SameKey(joined[1].items[m], layouts[i]))
                       => /\ Len(art_files(joined[1].items[m])) = 2
                          /\ ~selects_second_art(joined[1].items[m])
            ELSE joined[1].kind = "list" =>
                    \A m \in EntriesOf(joined[1], layouts[i]) :
                        selects_second_art(joined[1].items[m])

(***************************************************************************)
(* The count against the collector number (SpecCollector).                 *)
(***************************************************************************)
\* C30: for every layout class, TokenLayout included, a card_count that is
\* present is not smaller than the collector number.
C30_CountNotBelowNumber ==
    (/\ pc = "read"
     /\ view.card_count.exc = "none" /\ view.card_count.val.present
     /\ view.collector_number.exc = "none")
    => view.card_count.val.val >= view.collector_number.val

====
